---------------------------- MODULE Spec2Model ----------------------------
(***************************************************************************)
(* A model of the tickets-distribution workspace:                          *)
(*   udp_tools                 UdpPacket / PacketData (CBOR wire format,   *)
(*                             CRC-16/IBM-SDLC), ServerSide, ClientSide    *)
(*   udp_ticket_distribution   Distributor (the flights ledger behind an   *)
(*                             RwLock) and Passenger                       *)
(* Bytes are the integers 0..255; a Rust String is the sequence of its     *)
(* UTF-8 bytes; a datagram is the byte sequence on the wire.               *)
(***************************************************************************)
EXTENDS Integers, Sequences, FiniteSets, Bags, TLC

(***************************************************************************)
(* Bounds of the model.                                                    *)
(***************************************************************************)
\* passengers (client sessions) taking part
NumClients == 2
\* calls of the client API one session makes
MaxCalls == 2
\* flights gen_fake_flight is asked for
MaxFlights == 2
\* datagrams the transport loses or duplicates
MaxFaults == 1

(***************************************************************************)
(* Values shared by the definitions below.                                 *)
(***************************************************************************)
\* Option<T>: None is the empty sequence, Some(x) the sequence <<x>>
None == << >>
Some(x) == <<x>>
IsSome(o) == Len(o) > 0
Unwrap(o) == o[1]

Clients == 1..NumClients

\* PacketRequest, #[repr(u8)]: Ping=1, GetFlights, RequestTicket
Ping == 1
GetFlights == 2
RequestTicket == 3
\* PacketResponse, #[repr(u8)]: None, Ok, ErrorInRequest, TicketsSold
RespNone == 0
RespOk == 1
ErrorInRequest == 2
TicketsSold == 3
PacketRequest == {Ping, GetFlights, RequestTicket}
PacketResponse == {RespNone, RespOk, ErrorInRequest, TicketsSold}

\* the constant UdpPacket::new_with_request stores and try_retrieve_data expects
Secret == 51

(***************************************************************************)
(* tool_packetdata.rs: the payload container and its CRC.                  *)
(***************************************************************************)
Pow2(k) == 2 ^ k

\* The integers of the model are below 2^31: a u32 of 2^31 or more (a flight
\* number no bounded run generates) is read as OutOfModel, which equals no
\* flight number of the ledger.
U8Limit == Pow2(8) - 1
U16Limit == Pow2(16) - 1
U32Limit == (Pow2(30) - 1) * 2 + 1
OutOfModel == 0 - 1

BitOf(x, k) == (x \div Pow2(k)) % 2

ToggleBit(x, k) == IF BitOf(x, k) = 1 THEN x - Pow2(k) ELSE x + Pow2(k)

\* one step of the reflected CRC: the register shifted right by one, with
\* the reflected polynomial 0x8408 (bits 15, 10, 3) folded in when the bit
\* shifted out is set
CrcShift(crc) ==
    IF crc % 2 = 1 THEN ToggleBit(ToggleBit((crc \div 2) + Pow2(15), 10), 3)
    ELSE crc \div 2

RECURSIVE CrcShifts(_, _)
CrcShifts(crc, k) == IF k = 0 THEN crc ELSE CrcShifts(CrcShift(crc), k - 1)

\* the table of the byte-wise algorithm: eight shifts of each byte
CrcTable == [b \in 0..255 |-> CrcShifts(b, 8)]

\* exclusive or, of two 4-bit values (a table) and of two bytes
Xor1(a, b) == (a + b) % 2
Xor4Table ==
    [a \in 0..15 |-> [b \in 0..15 |->
        Xor1(BitOf(a, 0), BitOf(b, 0)) + 2 * Xor1(BitOf(a, 1), BitOf(b, 1))
        + 4 * Xor1(BitOf(a, 2), BitOf(b, 2)) + 8 * Xor1(BitOf(a, 3), BitOf(b, 3))]]
Xor8(a, b) == Xor4Table[a \div 16][b \div 16] * 16 + Xor4Table[a % 16][b % 16]

\* the register after one more byte: table[(crc ^ byte) & 0xFF] ^ (crc >> 8)
CrcUpdate(crc, byte) ==
    LET t == CrcTable[Xor8(crc % 256, byte)]
    IN  (t \div 256) * 256 + Xor8(t % 256, crc \div 256)

\* the register after the bytes i..j of data, taken in order (the range is
\* halved, so that a long payload is folded at a small depth)
RECURSIVE CrcRange(_, _, _, _)
CrcRange(crc, data, i, j) ==
    IF i > j \/ crc < 0 THEN crc
    ELSE IF i = j THEN CrcUpdate(crc, data[i])
    ELSE CrcRange(CrcRange(crc, data, i, (i + j) \div 2), data, (i + j) \div 2 + 1, j)

CrcFold(crc, data, i) == CrcRange(crc, data, i, Len(data))

\* Crc::<u16>::new(&CRC_16_IBM_SDLC).checksum(data): init 0xFFFF, reflected
\* in and out, xorout 0xFFFF
Checksum(data) == (Pow2(16) - 1) - CrcFold(Pow2(16) - 1, data, 1)

(***************************************************************************)
(* The wire format: serde_cbor's encoding of the derived Serialize of      *)
(* UdpPacket (a map of four named fields), PacketData (a map of two) and   *)
(* Vec<u8> (an array of unsigned integers).                                *)
(***************************************************************************)
\* the bytes of the field names
StrSecret == <<115, 101, 99, 114, 101, 116>>
StrRequest == <<114, 101, 113, 117, 101, 115, 116>>
StrResponse == <<114, 101, 115, 112, 111, 110, 115, 101>>
StrData == <<100, 97, 116, 97>>
StrCrc == <<99, 114, 99>>

\* a variant that writes a 16-bit argument low byte first
CborUintLe(n) ==
    IF n < 24 THEN <<n>>
    ELSE IF n < 256 THEN <<24, n>>
    ELSE IF n < 65536 THEN <<25, n % 256, n \div 256>>
    ELSE <<26, (n \div 16777216) % 256, (n \div 65536) % 256,
               (n \div 256) % 256, n % 256>>

\* major type 0: an unsigned integer in its shortest form
CborUint(n) ==
    IF n < 24 THEN <<n>>
    ELSE IF n < 256 THEN <<24, n>>
    ELSE IF n < 65536 THEN <<25, n \div 256, n % 256>>
    ELSE <<26, (n \div 16777216) % 256, (n \div 65536) % 256,
               (n \div 256) % 256, n % 256>>

\* the head of a major type (its three high bits) with a length
CborHead(major, n) ==
    LET u == CborUint(n) IN <<major * 32 + u[1]>> \o Tail(u)

\* major type 3: a text string (the field names)
CborText(str) == CborHead(3, Len(str)) \o str

\* the elements i..j of data, each an unsigned integer, in order
RECURSIVE CborRange(_, _, _)
CborRange(data, i, j) ==
    IF i > j THEN << >>
    ELSE IF i = j THEN CborUint(data[i])
    ELSE CborRange(data, i, (i + j) \div 2) \o CborRange(data, (i + j) \div 2 + 1, j)

CborElems(data, i) == CborRange(data, i, Len(data))

\* Vec<u8>: major type 4, an array of the bytes as unsigned integers
CborU8Seq(data) == CborHead(4, Len(data)) \o CborElems(data, 1)

\* A parse step answers [ok, val, next]: the value read at position i and
\* the position after it.
ParseFail == [ok |-> FALSE, val |-> 0, next |-> 0]

\* the argument of a head of the given major type at position i
ParseHead(bytes, i, major) ==
    IF i > Len(bytes) \/ bytes[i] \div 32 # major THEN ParseFail
    ELSE LET info == bytes[i] % 32 IN
         IF info < 24 THEN [ok |-> TRUE, val |-> info, next |-> i + 1]
         ELSE IF info = 24 /\ i + 1 <= Len(bytes)
              THEN [ok |-> TRUE, val |-> bytes[i + 1], next |-> i + 2]
         ELSE IF info = 25 /\ i + 2 <= Len(bytes)
              THEN [ok |-> TRUE, val |-> bytes[i + 1] * 256 + bytes[i + 2], next |-> i + 3]
         ELSE IF info = 26 /\ i + 4 <= Len(bytes) /\ bytes[i + 1] < 128
              THEN [ok |-> TRUE,
                    val |-> bytes[i + 1] * 16777216 + bytes[i + 2] * 65536
                            + bytes[i + 3] * 256 + bytes[i + 4],
                    next |-> i + 5]
         ELSE ParseFail

\* an unsigned integer that fits `limit` (u8: 255, u16: 65535, u32: 2^32-1)
ParseUint(bytes, i, limit) ==
    LET h == ParseHead(bytes, i, 0) IN
    IF h.ok /\ h.val <= limit THEN h ELSE ParseFail

\* the field name `str` at position i
ParseKey(bytes, i, str) ==
    LET h == ParseHead(bytes, i, 3) IN
    IF h.ok /\ h.val = Len(str) /\ h.next + Len(str) - 1 <= Len(bytes)
            /\ SubSeq(bytes, h.next, h.next + Len(str) - 1) = str
    THEN [ok |-> TRUE, val |-> 0, next |-> h.next + Len(str)]
    ELSE ParseFail

\* the next n elements of an array of u8, after those of acc (read in
\* order, the first half of them and then the rest)
RECURSIVE ParseElems(_, _, _, _)
ParseElems(bytes, i, n, acc) ==
    IF n = 0 THEN [ok |-> TRUE, val |-> acc, next |-> i]
    ELSE IF n = 1
    THEN LET e == ParseUint(bytes, i, U8Limit) IN
         IF e.ok THEN [ok |-> TRUE, val |-> Append(acc, e.val), next |-> e.next]
         ELSE [ok |-> FALSE, val |-> acc, next |-> 0]
    ELSE LET h == ParseElems(bytes, i, n \div 2, acc) IN
         IF h.ok THEN ParseElems(bytes, h.next, n - n \div 2, h.val) ELSE h

\* Vec<u8>
ParseU8Seq(bytes, i) ==
    LET h == ParseHead(bytes, i, 4) IN
    IF h.ok THEN ParseElems(bytes, h.next, h.val, << >>)
    ELSE [ok |-> FALSE, val |-> << >>, next |-> 0]

\* A derived Deserialize reads a struct as a map of its fields; a field is
\* [key, kind, of]: its name, the kind of its value ("u8", "u16", "u32",
\* "bytes" for Vec<u8>, "option" for an Option of the struct of fields `of`).
\* The fields are read in the order the derived Serialize writes them.
Field(key, kind, of) == [key |-> key, kind |-> kind, of |-> of]

RECURSIVE ParseFields(_, _, _, _, _)
RECURSIVE ParseValue(_, _, _)

\* a struct: a map of Len(fields) entries; val is the tuple of its values
ParseStruct(bytes, i, fields) ==
    LET m == ParseHead(bytes, i, 5) IN
    IF m.ok /\ m.val = Len(fields) THEN ParseFields(bytes, m.next, fields, 1, << >>)
    ELSE [ok |-> FALSE, val |-> << >>, next |-> 0]

\* Some(T) of a value parsed as T
SomeOf(r) ==
    IF r.ok THEN [ok |-> TRUE, val |-> Some(r.val), next |-> r.next]
    ELSE [ok |-> FALSE, val |-> None, next |-> 0]

\* the value of a field; null (0xF6) is the None of an Option
ParseValue(bytes, i, field) ==
    IF field.kind = "u8" THEN ParseUint(bytes, i, U8Limit)
    ELSE IF field.kind = "u16" THEN ParseUint(bytes, i, U16Limit)
    ELSE IF field.kind = "u32" THEN ParseUint(bytes, i, U32Limit)
    ELSE IF field.kind = "bytes" THEN ParseU8Seq(bytes, i)
    ELSE IF i <= Len(bytes) /\ bytes[i] = 246
    THEN [ok |-> TRUE, val |-> None, next |-> i + 1]
    ELSE SomeOf(ParseStruct(bytes, i, field.of))

\* the value of the field k, after its key
ParseFieldValue(bytes, v, fields, k, acc) ==
    IF v.ok THEN ParseFields(bytes, v.next, fields, k + 1, Append(acc, v.val))
    ELSE [ok |-> FALSE, val |-> acc, next |-> 0]

\* the fields from the k-th on, after the values of acc
ParseFields(bytes, i, fields, k, acc) ==
    IF k > Len(fields) THEN [ok |-> TRUE, val |-> acc, next |-> i]
    ELSE LET key == ParseKey(bytes, i, fields[k].key) IN
         IF key.ok
         THEN ParseFieldValue(bytes, ParseValue(bytes, key.next, fields[k]), fields, k, acc)
         ELSE [ok |-> FALSE, val |-> acc, next |-> 0]

(***************************************************************************)
(* udp_ticket_distribution/lib.rs: FlightInfo and its conversions.         *)
(***************************************************************************)
StrNum == <<110, 117, 109>>
StrSeatsNum == <<115, 101, 97, 116, 115, 95, 110, 117, 109>>


CborFlightInfo(f) ==
    CborHead(5, 2) \o CborText(StrNum) \o CborUint(f.num)
                  \o CborText(StrSeatsNum) \o CborUint(f.seats_num)

RECURSIVE CborFlights(_, _)
CborFlights(flights, i) ==
    IF i > Len(flights) THEN << >>
    ELSE CborFlightInfo(flights[i]) \o CborFlights(flights, i + 1)

\* serde_cbor::to_writer of a Vec<FlightInfo>
FlightsToCbor(flights) == CborHead(4, Len(flights)) \o CborFlights(flights, 1)

FlightInfoFields == <<Field(StrNum, "u32", << >>), Field(StrSeatsNum, "u8", << >>)>>

\* the next n FlightInfo of an array, after those of acc
RECURSIVE ParseFlights(_, _, _, _)
ParseFlightsNext(bytes, f, n, acc) ==
    IF f.ok
    THEN ParseFlights(bytes, f.next, n - 1,
                      Append(acc, [num |-> f.val[1], seats_num |-> f.val[2]]))
    ELSE [ok |-> FALSE, val |-> acc, next |-> 0]
ParseFlights(bytes, i, n, acc) ==
    IF n = 0 THEN [ok |-> TRUE, val |-> acc, next |-> i]
    ELSE ParseFlightsNext(bytes, ParseStruct(bytes, i, FlightInfoFields), n, acc)

\* the Vec<FlightInfo> of the array parsed as r, which leaves no byte of data
FlightsParsed(data, r) ==
    IF r.ok /\ r.next = Len(data) + 1
    THEN [ok |-> TRUE, flights |-> r.val]
    ELSE [ok |-> FALSE, flights |-> << >>]

\* serde_cbor::from_reader of a Vec<FlightInfo>; ok is false where
\* from_reader answers an error
FlightsFromCbor(data) ==
    LET h == ParseHead(data, 1, 4) IN
    IF h.ok THEN FlightsParsed(data, ParseFlights(data, h.next, h.val, << >>))
    ELSE [ok |-> FALSE, flights |-> << >>]

(***************************************************************************)
(* The payloads of every run.  The flights of a run are numbered 1, 2, ..  *)
(* and have at most the seats of the largest flight generated, so the      *)
(* lists GetFlights answers are known before the run: their encodings and  *)
(* checksums are computed once, by the operators above, and looked up.     *)
(***************************************************************************)
\* the rows gen_fake_flight is asked for
RowInputs == {0, 1, 2}

\* the rows a flight may have: 1..=42
MinRows == 1
MaxRows == 42

\* a variant without the arm 43.. => 42
ClampRowsLow(rows) == IF rows < MinRows THEN MinRows ELSE rows

\* match rows { 43.. => 42, 0 => 1, other => other }
ClampRows(rows) ==
    IF rows > MaxRows THEN MaxRows
    ELSE IF rows < MinRows THEN MinRows
    ELSE rows

\* "ABCDEF".chars(), as bytes
SeatLetters == <<65, 66, 67, 68, 69, 70>>

\* Display of an unsigned integer: its decimal digits, as bytes
RECURSIVE Decimal(_)
Decimal(n) ==
    IF n < 10 THEN <<48 + n>> ELSE Decimal(n \div 10) \o <<48 + (n % 10)>>

\* format!("{}{}", letter, row)
SeatCode(letter, row) == <<letter>> \o Decimal(row)

\* for row in 1..=rows { for letter in "ABCDEF".chars() { seats.push(..) } }
GenSeats(rows) ==
    [i \in 1..(rows * Len(SeatLetters)) |->
        SeatCode(SeatLetters[((i - 1) % Len(SeatLetters)) + 1],
                 ((i - 1) \div Len(SeatLetters)) + 1)]

\* u32::to_le_bytes
to_le_bytes(n) ==
    <<n % 256, (n \div 256) % 256, (n \div 65536) % 256, (n \div 16777216) % 256>>

\* the flight numbers passengers ask tickets for
FlightInputs == 1..(MaxFlights + 1)

\* the seats left of a flight of a run
SeatCounts ==
    UNION {0..((ClampRows(rows) * Len(SeatLetters)) % Pow2(8)) : rows \in RowInputs}

\* the lists of FlightInfo of a run
KnownFlights ==
    UNION {{[i \in 1..k |-> [num |-> i, seats_num |-> s[i]]] : s \in [1..k -> SeatCounts]} :
              k \in 0..MaxFlights}
FlightsWireOf == [flights \in KnownFlights |-> FlightsToCbor(flights)]
KnownFlightsWires == {FlightsWireOf[flights] : flights \in KnownFlights}
FlightsOf == [data \in KnownFlightsWires |-> FlightsFromCbor(data)]

\* the seat codes of a run, and the payloads of its packets
KnownTickets ==
    UNION {{GenSeats(ClampRows(rows))[i] : i \in 1..(ClampRows(rows) * Len(SeatLetters))} :
              rows \in RowInputs}
KnownPayloads ==
    KnownFlightsWires \cup KnownTickets \cup {to_le_bytes(n) : n \in FlightInputs}
ChecksumOf == [data \in KnownPayloads |-> Checksum(data)]

\* convert_to_bytes
convert_to_bytes(flights) ==
    IF flights \in KnownFlights THEN FlightsWireOf[flights] ELSE FlightsToCbor(flights)

\* convert_to_flightinfo, before its unwrap
convert_to_flightinfo(data) ==
    IF data \in KnownFlightsWires THEN FlightsOf[data] ELSE FlightsFromCbor(data)

\* PacketData::make_crc
make_crc(data) ==
    IF data \in KnownPayloads THEN ChecksumOf[data] ELSE Checksum(data)

(***************************************************************************)
(* tool_packetdata.rs: PacketData.                                         *)
(***************************************************************************)
\* PacketData::new_with_data
NewPacketData(data) == [crc |-> make_crc(data), data |-> data]

CrcError == [ok |-> FALSE, err |-> "Crc error!"]
SecretError == [ok |-> FALSE, err |-> "Secret is invalid!"]
DataNoneError == [ok |-> FALSE, err |-> "Data is None!"]

\* a variant that answers the bytes without comparing the codes
DataRetrieveUnchecked(pd) == [ok |-> TRUE, data |-> pd.data]

\* PacketData::try_retrieve_data
DataRetrieve(pd) ==
    IF pd.crc = make_crc(pd.data) THEN [ok |-> TRUE, data |-> pd.data] ELSE CrcError

(***************************************************************************)
(* tool_udppacket/mod.rs: UdpPacket.                                       *)
(***************************************************************************)
new_with_request(request) ==
    [secret |-> Secret, request |-> request, response |-> RespNone, data |-> None]

set_data(packet, data) == [packet EXCEPT !.data = Some(NewPacketData(data))]

set_response(packet, response) == [packet EXCEPT !.response = response]

\* a variant that looks for the payload before it checks the secret
TryRetrieveDataFirst(packet) ==
    IF ~IsSome(packet.data) THEN DataNoneError
    ELSE IF packet.secret # Secret THEN SecretError
    ELSE DataRetrieve(Unwrap(packet.data))

try_retrieve_data(packet) ==
    IF packet.secret # Secret THEN SecretError
    ELSE IF ~IsSome(packet.data) THEN DataNoneError
    ELSE DataRetrieve(Unwrap(packet.data))

\* PacketRequest / PacketResponse accessors
request(packet) == packet.request
response(packet) == packet.response

(***************************************************************************)
(* The wire format of UdpPacket and PacketData.                            *)
(***************************************************************************)
CborPacketData(pd) ==
    CborHead(5, 2) \o CborText(StrCrc) \o CborUint(pd.crc)
                  \o CborText(StrData) \o CborU8Seq(pd.data)

\* Option<PacketData>: None is CBOR null (0xF6)
CborOptData(o) == IF IsSome(o) THEN CborPacketData(Unwrap(o)) ELSE <<246>>

\* serde_cbor::to_writer(&mut bytearr, &self)
ToCbor(packet) ==
    CborHead(5, 4) \o CborText(StrSecret) \o CborUint(packet.secret)
                  \o CborText(StrRequest) \o CborUint(packet.request)
                  \o CborText(StrResponse) \o CborUint(packet.response)
                  \o CborText(StrData) \o CborOptData(packet.data)

PacketDataFields == <<Field(StrCrc, "u16", << >>), Field(StrData, "bytes", << >>)>>
PacketFields ==
    <<Field(StrSecret, "u8", << >>), Field(StrRequest, "u8", << >>),
      Field(StrResponse, "u8", << >>), Field(StrData, "option", PacketDataFields)>>

NoPacket == [ok |-> FALSE, packet |-> new_with_request(Ping)]

\* the Option<PacketData> of the values of its fields
PacketDataOf(o) ==
    IF IsSome(o) THEN Some([crc |-> Unwrap(o)[1], data |-> Unwrap(o)[2]]) ELSE None

PacketParsed(bytes, r) ==
    IF /\ r.ok
       /\ r.next = Len(bytes) + 1
       /\ r.val[2] \in PacketRequest
       /\ r.val[3] \in PacketResponse
    THEN [ok |-> TRUE,
          packet |-> [secret |-> r.val[1], request |-> r.val[2],
                      response |-> r.val[3], data |-> PacketDataOf(r.val[4])]]
    ELSE NoPacket

\* serde_cbor::from_reader::<UdpPacket, _>: the packet the bytes hold, with
\* ok false where from_reader answers an error (which From<Vec<u8>> unwraps)
FromCbor(bytes) == PacketParsed(bytes, ParseStruct(bytes, 1, PacketFields))

\* the packets the clients build
PingPacket == new_with_request(Ping)
GetFlightsPacket == new_with_request(GetFlights)
RequestTicketPacket ==
    [n \in FlightInputs |-> set_data(new_with_request(RequestTicket), to_le_bytes(n))]

\* The packets of every run: the clients' requests with every response set,
\* and the answers to GetFlights and to RequestTicket.
\* Their encodings are computed once, by ToCbor and FromCbor, and looked up.
KnownPackets ==
    {set_response(p, r) :
        p \in {PingPacket, GetFlightsPacket} \cup {RequestTicketPacket[n] : n \in FlightInputs},
        r \in PacketResponse}
    \cup {set_data(set_response(GetFlightsPacket, RespOk), convert_to_bytes(flights)) :
             flights \in KnownFlights}
    \cup {set_data(set_response(RequestTicketPacket[n], RespOk), ticket) :
             n \in FlightInputs, ticket \in KnownTickets}
WireOf == [p \in KnownPackets |-> ToCbor(p)]
KnownWires == {WireOf[p] : p \in KnownPackets}
PacketOf == [b \in KnownWires |-> FromCbor(b)]

\* UdpPacket::to_bytes
to_bytes(packet) == IF packet \in KnownPackets THEN WireOf[packet] ELSE ToCbor(packet)

\* impl From<Vec<u8>> for UdpPacket, before its unwrap
from_bytes(bytes) == IF bytes \in KnownWires THEN PacketOf[bytes] ELSE FromCbor(bytes)

(***************************************************************************)
(* udp_ticket_distribution/distr.rs: the ledger, Vec<FlightDB>.            *)
(***************************************************************************)
RECURSIVE MaxNum(_, _)
MaxNum(db, i) ==
    IF i > Len(db) THEN 0
    ELSE LET rest == MaxNum(db, i + 1) IN
         IF db[i].info.num > rest THEN db[i].info.num ELSE rest

\* a variant that gives the largest number again
NextNumSame(db) == IF Len(db) = 0 THEN 1 ELSE MaxNum(db, 1)

\* let mut num = 1; if let Some(max_num) = ...max() { num += max_num }
NextNum(db) == IF Len(db) = 0 THEN 1 ELSE 1 + MaxNum(db, 1)

\* the FlightDB gen_fake_flight pushes; seats_num is the u8 rows*6
NewFlight(db, rows) ==
    LET r == ClampRows(rows) IN
    [info  |-> [num |-> NextNum(db), seats_num |-> (r * Len(SeatLetters)) % Pow2(8)],
     seats |-> GenSeats(r)]

\* the body of gen_fake_flight, under the write guard
GenFakeFlight(db, rows) == Append(db, NewFlight(db, rows))

\* lock.iter().map(|f| f.info).collect()
FlightInfos(db) == [i \in 1..Len(db) |-> db[i].info]

\* variants of the handler's steps, for the sensitivity of the properties:
\* a pop that leaves the seat in the Vec, a pop that answers the first seat,
\* a find that ignores the counter, a counter that is not decremented
PopRestKeeps(seats) == seats
PopValueFirst(seats) == IF Len(seats) = 0 THEN None ELSE Some(seats[1])
FlightMatchesNum(f, flight_num) == f.info.num = flight_num
DecSeatsNumSkipped(n) == n

\* the predicate of find in the RequestTicket arm
FlightMatches(f, flight_num) == f.info.num = flight_num /\ f.info.seats_num > 0

\* lock.iter_mut().find(..): the index of the first matching flight, 0 for None
RECURSIVE FindFlight(_, _, _)
FindFlight(db, flight_num, i) ==
    IF i > Len(db) THEN 0
    ELSE IF FlightMatches(db[i], flight_num) THEN i
    ELSE FindFlight(db, flight_num, i + 1)

\* Vec::pop: the last element, None (the empty sequence) when there is none
PopValue(seats) == IF Len(seats) = 0 THEN None ELSE Some(seats[Len(seats)])
PopRest(seats) == IF Len(seats) = 0 THEN seats ELSE SubSeq(seats, 1, Len(seats) - 1)

\* flight.info.seats_num -= 1
DecSeatsNum(n) == n - 1

\* u32::from_le_bytes(data[0..4].try_into().unwrap()); ok is false where the
\* slice data[0..4] is out of range (a panic)
FlightNumOf(data) ==
    IF Len(data) < 4 THEN [ok |-> FALSE, num |-> 0]
    ELSE [ok |-> TRUE,
          num |-> IF data[4] >= 128 THEN OutOfModel
                  ELSE data[1] + data[2] * 256 + data[3] * 65536 + data[4] * 16777216]

\* String::from_utf8: the bytes as a String; the model's strings are ASCII,
\* a byte above 127 stands for bytes that are no UTF-8
from_utf8(data) ==
    IF \A i \in 1..Len(data) : data[i] < 128
    THEN [ok |-> TRUE, str |-> data] ELSE [ok |-> FALSE, str |-> << >>]

(***************************************************************************)
(* tool_udphelper: the handlers a server runs, and the buffers.            *)
(***************************************************************************)
\* vec![0u8; 1024]: the receive buffer of ServerSide::loop_recv and of ClientSide
BuffSize == 1024

\* socket.recv(&mut buff): a datagram longer than the buffer is cut to it
RecvInto(bytes) == IF Len(bytes) > BuffSize THEN SubSeq(bytes, 1, BuffSize) ELSE bytes

\* A processing_fn is a value [kind, resp]:
\*   "const"      |p| p.set_response(resp)   (the default handler has resp Ok)
\*   "ping_only"  Ping => Ok, _ => None      (the handler of the crate's tests)
\*   "logic"      the closure Distributor::make_logic_fn builds
ConstFn(resp) == [kind |-> "const", resp |-> resp]
PingOnlyFn == [kind |-> "ping_only", resp |-> RespOk]
LogicFn == [kind |-> "logic", resp |-> RespOk]

\* the handler ServerSide::new_with_address installs
DefaultFn == ConstFn(RespOk)

\* the handlers set_processing_fn is given
ProcessingFns == {ConstFn(r) : r \in PacketResponse} \cup {PingOnlyFn}

\* a variant of the closures that answers with a packet built anew from the
\* request of the one received
ApplyFnFresh(fn, packet) ==
    IF fn.kind = "const" THEN set_response(new_with_request(request(packet)), fn.resp)
    ELSE IF request(packet) = Ping THEN set_response(packet, RespOk)
    ELSE set_response(packet, RespNone)

\* the closures that touch no shared state, applied to a packet
ApplyFn(fn, packet) ==
    IF fn.kind = "const" THEN set_response(packet, fn.resp)
    ELSE IF request(packet) = Ping THEN set_response(packet, RespOk)
    ELSE set_response(packet, RespNone)

\* variant: every packet the handler returns is sent back
ShouldReplyAlways(packet) == TRUE

\* process_recieved_packet: whether the handler's packet is sent back
ShouldReply(packet) == response(packet) # RespNone

\* the addresses a client is pointed at: the server's, and a string that
\* is no socket address (socket.connect answers an error)
ServerAddr == "server"
BadAddr == "bad"
Addresses == {ServerAddr, BadAddr}
Resolves(addr) == addr = ServerAddr

(***************************************************************************)
(* The state.                                                              *)
(***************************************************************************)
VARIABLES
    db_storage,        \* Distributor.db_storage: the Vec<FlightDB>
    db_lock,           \* its RwLock: [writer, readers, poisoned]
    generated,         \* the seat codes gen_fake_flight pushed, for each flight
    server,            \* ServerSide: [is_running, loop_handle, processing_fn]
    loops,             \* the loop_recv tasks spawned so far: [fn, state]
    net,               \* datagrams on their way to the server socket: bag of [src, bytes]
    tasks,             \* process_recieved_packet tasks in progress: bag of records
    done,              \* the tasks that ended: bag of [src, bytes, out, sent, found]
    client,            \* ClientSide: [is_connected, peer, pc, call, arg]
    inbox,             \* datagrams on their way to each client socket: bag of bytes
    acquired_tickets,  \* Passenger.acquired_tickets
    ret,               \* what each client's last API call returned
    answers,           \* what the calls of query_ticket_for_a_flight returned:
                       \* bag of [by, flight_num, kind, val]
    count              \* what is left of each bound: [calls, faults, starts, sets]

vars == <<db_storage, db_lock, generated, server, loops, net, tasks, done, client, inbox,
          acquired_tickets, ret, answers, count>>

ledgerVars == <<db_storage, db_lock, generated>>
serverVars == <<server, loops>>
clientVars == <<client, acquired_tickets, ret, answers>>

One(x) == SetToBag({x})

NoRet == [kind |-> "none", of |-> "none", err |-> "", val |-> None]
Pending == [kind |-> "pending", of |-> "connect", err |-> "", val |-> None]
RetOk(call, val) == [kind |-> "ok", of |-> call, err |-> "", val |-> val]
RetErr(call, err) == [kind |-> "err", of |-> call, err |-> err, val |-> None]

\* ServerSide::new_with_address
NewServer == [is_running |-> FALSE, loop_handle |-> None, processing_fn |-> DefaultFn]

\* ClientSide::new_with_address
\* (connect_ret is what the last call of set_server returned)
NewClient == [is_connected |-> FALSE, peer |-> None, pc |-> "idle",
              call |-> "none", arg |-> 0, connect_ret |-> NoRet]

UnlockedLock == [writer |-> FALSE, readers |-> 0, poisoned |-> FALSE]

\* a new loop_recv task holding the handler it was given
NewLoop(fn) == [fn |-> fn, state |-> "running"]

(***************************************************************************)
(* ServerSide: start, stop, set_processing_fn, loop_recv.                  *)
(***************************************************************************)
\* starts of the receive loop one run makes
MaxStarts == 1
\* calls of set_processing_fn one run makes
MaxSets == 1

\* handle.is_finished(): the task returned or was dropped
IsFinished(loop) == loop.state \notin {"running", "aborting"}

\* a variant of loop_recv that awaits the task of a datagram before it
\* receives the next one
ReceivesInline(loop) == loop.state \in {"running", "aborting"} /\ tasks = EmptyBag

\* the loop_recv task still runs its loop
Receives(loop) == loop.state \in {"running", "aborting"}

\* JoinHandle::abort of a task that has not finished.  A task that is not
\* being polled is dropped at once.  A task that a worker thread is polling
\* (polled) is only marked: it runs on to the next await that yields, so a
\* loop_recv may still take datagrams after abort() has returned.
Abort(loop, polled) ==
    IF loop.state = "running"
    THEN [loop EXCEPT !.state = IF polled THEN "aborting" ELSE "aborted"]
    ELSE loop

\* stop: if let Some(handle) = &self.loop_handle { if !handle.is_finished() { handle.abort() } }
AbortHandle(srv, lps, polled) ==
    IF IsSome(srv.loop_handle) /\ ~IsFinished(lps[Unwrap(srv.loop_handle)])
    THEN [lps EXCEPT ![Unwrap(srv.loop_handle)] = Abort(@, polled)]
    ELSE lps

\* ServerSide::stop
Stop(polled) ==
    /\ loops' = AbortHandle(server, loops, polled)
    /\ server' = [server EXCEPT !.is_running = FALSE]
    /\ UNCHANGED <<ledgerVars, net, tasks, done, clientVars, inbox, count>>

\* the loop_recv task that start spawns, after the loops of stopped
StartLoop(stopped) ==
    /\ loops' = Append(stopped, NewLoop(server.processing_fn))
    /\ server' = [server EXCEPT !.is_running = TRUE,
                                !.loop_handle = Some(Len(stopped) + 1)]

\* ServerSide::start: stop(), then a new loop_recv task with a clone of processing_fn
Start(polled) ==
    /\ count.starts > 0
    /\ StartLoop(AbortHandle(server, loops, polled))
    /\ count' = [count EXCEPT !.starts = @ - 1]
    /\ UNCHANGED <<ledgerVars, net, tasks, done, clientVars, inbox>>

\* socket.recv_from(&mut buff).await? answers an error: loop_recv returns it
LoopFails(l) ==
    /\ count.faults > 0
    /\ Receives(loops[l])
    /\ loops' = [loops EXCEPT ![l].state = "finished"]
    /\ count' = [count EXCEPT !.faults = @ - 1]
    /\ UNCHANGED <<ledgerVars, server, net, tasks, done, clientVars, inbox>>

\* an aborted loop_recv comes to an await that yields: the runtime drops it
LoopCancelled(l) ==
    /\ loops[l].state = "aborting"
    /\ loops' = [loops EXCEPT ![l].state = "aborted"]
    /\ UNCHANGED <<ledgerVars, server, net, tasks, done, clientVars, inbox, count>>

\* ServerSide::set_processing_fn
SetProcessingFn(fn) ==
    /\ count.sets > 0
    /\ server.processing_fn # fn
    /\ server' = [server EXCEPT !.processing_fn = fn]
    /\ count' = [count EXCEPT !.sets = @ - 1]
    /\ UNCHANGED <<ledgerVars, loops, net, tasks, done, clientVars, inbox>>

\* the task tokio::task::spawn(process_recieved_packet(socket, data, addr, fn)) starts
\* (at is what the server was when the datagram was received)
NewTask(src, bytes, fn, at) ==
    [src |-> src, bytes |-> bytes, fn |-> fn, pc |-> "spawned",
     idx |-> 0, ticket |-> << >>, found |-> 0, at |-> at]

\* the tasks of a bag of ended tasks that panicked
Failed(ended) ==
    BagCardinality([e \in {x \in BagToSet(ended) : ~IsSome(x.out)} |-> ended[e]])

\* the server at the moment the loop l receives a datagram: the loops start
\* has spawned so far, is_running, whether set_processing_fn has replaced
\* the handler the loop was spawned with, and the tasks that have panicked
ReceivedAt(l, srv, lps, ended) ==
    [loop |-> l, starts |-> Len(lps), is_running |-> srv.is_running,
     replaced |-> srv.processing_fn # lps[l].fn, failed |-> Failed(ended)]

\* a variant of loop_recv that reads the handler of the server at each datagram
LoopFnLatest(l) == server.processing_fn

\* processing_fn.clone() in loop_recv: the handler the loop was spawned with
LoopFn(l) == loops[l].fn

\* one turn of loop_recv: recv_from, then the spawn of the datagram's task
ServerRecv(l, d) ==
    /\ Receives(loops[l])
    /\ BagIn(d, net)
    /\ net' = net (-) One(d)
    /\ tasks' = tasks (+) One(NewTask(d.src, RecvInto(d.bytes), LoopFn(l),
                                      ReceivedAt(l, server, loops, done)))
    /\ UNCHANGED <<ledgerVars, serverVars, done, clientVars, inbox, count>>

(***************************************************************************)
(* process_recieved_packet and the handlers.  A step of a task answers     *)
(* what it did: it waits for the lock (blocked), it goes on as `cont`, it  *)
(* returned the packet `out`, or (neither) it panicked.                    *)
(***************************************************************************)
Blocked(db, lock) ==
    [blocked |-> TRUE, db |-> db, lock |-> lock, cont |-> None, out |-> None, found |-> 0]
Panicked(db, lock) ==
    [blocked |-> FALSE, db |-> db, lock |-> lock, cont |-> None, out |-> None, found |-> 0]
Returned(db, lock, packet, found) ==
    [blocked |-> FALSE, db |-> db, lock |-> lock, cont |-> None, out |-> Some(packet),
     found |-> found]
Continues(db, lock, task) ==
    [blocked |-> FALSE, db |-> db, lock |-> lock, cont |-> Some(task), out |-> None,
     found |-> 0]

\* a variant of the lock that grants the write guard while read guards are held
CanWriteAmongReaders(lock) == ~lock.writer

\* RwLock::write: granted when no guard is held
CanWrite(lock) == ~lock.writer /\ lock.readers = 0
\* RwLock::read: granted when no write guard is held
CanRead(lock) == ~lock.writer

\* the GetFlights arm up to the read guard
GetFlightsArm(t, packet, db, lock) ==
    IF ~CanRead(lock) THEN Blocked(db, lock)
    ELSE IF lock.poisoned THEN Panicked(db, lock)
    ELSE Continues(db, [lock EXCEPT !.readers = @ + 1], [t EXCEPT !.pc = "reading"])

\* the GetFlights arm under the read guard: the reply, and the guard dropped
GetFlightsReply(packet, db, lock) ==
    Returned(db, [lock EXCEPT !.readers = @ - 1],
             set_data(set_response(packet, RespOk), convert_to_bytes(FlightInfos(db))), 0)

\* the RequestTicket arm up to flight.seats.pop(): the payload unwrapped, the
\* write guard taken, the flight found and its last seat popped
RequestTicketPop(t, db, lock, idx, popped) ==
    IF ~IsSome(popped) THEN Panicked(db, [lock EXCEPT !.poisoned = TRUE])
    ELSE Continues([db EXCEPT ![idx].seats = PopRest(@)],
                   [lock EXCEPT !.writer = TRUE],
                   [t EXCEPT !.pc = "popped", !.idx = idx, !.ticket = Unwrap(popped),
                             !.found = db[idx].info.seats_num])
\* a variant of the arm that answers TicketsSold with a packet built anew,
\* which carries no payload
RequestTicketFoundFresh(t, packet, db, lock, idx) ==
    IF idx = 0
    THEN Returned(db, lock, set_response(new_with_request(request(packet)), TicketsSold), 0)
    ELSE RequestTicketPop(t, db, lock, idx, PopValue(db[idx].seats))
\* ... .find(|flight| ...) and `if let Some(flight)`: idx is 0 where none is found
RequestTicketFound(t, packet, db, lock, idx) ==
    IF idx = 0 THEN Returned(db, lock, set_response(packet, TicketsSold), 0)
    ELSE RequestTicketPop(t, db, lock, idx, PopValue(db[idx].seats))
\* db_storage.write().unwrap(), with the flight number n unwrapped before it
RequestTicketWrite(t, packet, db, lock, n) ==
    IF ~n.ok THEN Panicked(db, lock)
    ELSE IF ~CanWrite(lock) THEN Blocked(db, lock)
    ELSE IF lock.poisoned THEN Panicked(db, lock)
    ELSE RequestTicketFound(t, packet, db, lock, FindFlight(db, n.num, 1))
\* a variant of the arm that takes the write guard before it unwraps the
\* payload: the panic poisons the lock
RequestTicketDataGuarded(t, packet, db, lock, r) ==
    IF ~r.ok THEN Panicked(db, [lock EXCEPT !.poisoned = TRUE])
    ELSE RequestTicketWrite(t, packet, db, lock, FlightNumOf(r.data))
\* packet.try_retrieve_data().unwrap() of the payload r
RequestTicketData(t, packet, db, lock, r) ==
    IF ~r.ok THEN Panicked(db, lock)
    ELSE RequestTicketWrite(t, packet, db, lock, FlightNumOf(r.data))
RequestTicketArm(t, packet, db, lock) ==
    RequestTicketData(t, packet, db, lock, try_retrieve_data(packet))

\* a variant of the arm that keeps the write guard when it returns
RequestTicketReplyHolds(t, packet, db, lock) ==
    Returned([db EXCEPT ![t.idx].info.seats_num = DecSeatsNum(@)], lock,
             set_data(set_response(packet, RespOk), t.ticket), t.found)

\* the RequestTicket arm after the pop: the counter, the reply, the guard dropped
RequestTicketReply(t, packet, db, lock) ==
    Returned([db EXCEPT ![t.idx].info.seats_num = DecSeatsNum(@)],
             [lock EXCEPT !.writer = FALSE],
             set_data(set_response(packet, RespOk), t.ticket), t.found)

\* the closure of make_logic_fn, from its call to its first wait
LogicFnStart(t, packet, db, lock) ==
    IF request(packet) = Ping THEN Returned(db, lock, set_response(packet, RespOk), 0)
    ELSE IF request(packet) = GetFlights THEN GetFlightsArm(t, packet, db, lock)
    ELSE RequestTicketArm(t, packet, db, lock)

\* a task's next step: data.into() (a panic where the bytes hold no packet),
\* then processing_fn(packet)
TaskStepOn(t, parsed, db, lock) ==
    IF ~parsed.ok THEN Panicked(db, lock)
    ELSE IF t.pc = "reading" THEN GetFlightsReply(parsed.packet, db, lock)
    ELSE IF t.pc = "popped" THEN RequestTicketReply(t, parsed.packet, db, lock)
    ELSE IF t.fn.kind = "logic" THEN LogicFnStart(t, parsed.packet, db, lock)
    ELSE Returned(db, lock, ApplyFn(t.fn, parsed.packet), 0)
TaskStep(t, db, lock) == TaskStepOn(t, from_bytes(t.bytes), db, lock)

\* if packet.response() != PacketResponse::None { socket.send_to(&packet.to_bytes(), addr) }
Replies(t, out) ==
    IF IsSome(out) /\ ShouldReply(Unwrap(out))
    THEN Some([to |-> t.src, bytes |-> to_bytes(Unwrap(out))])
    ELSE None

\* what is kept of a task that ended (out is None for a task that panicked)
Ended(t, out, found) ==
    [src |-> t.src, bytes |-> t.bytes, out |-> out, sent |-> Replies(t, out),
     found |-> found, at |-> t.at, stopped |-> FALSE]

\* a task ends: its reply, if any, is sent to the address its datagram came from
\* (stopped: the server was stopped when the task ended)
EndTask(t, e) ==
    /\ tasks' = tasks (-) One(t)
    /\ done' = done (+) One([e EXCEPT !.stopped = ~server.is_running])
    /\ inbox' = IF IsSome(e.sent)
                THEN [inbox EXCEPT ![Unwrap(e.sent).to] = @ (+) One(Unwrap(e.sent).bytes)]
                ELSE inbox

\* the effect of the step `step` of a task
RunTaskStep(t, step) ==
    /\ ~step.blocked
    /\ db_storage' = step.db
    /\ db_lock' = step.lock
    /\ IF IsSome(step.cont)
       THEN /\ tasks' = (tasks (-) One(t)) (+) One(Unwrap(step.cont))
            /\ UNCHANGED <<done, inbox>>
       ELSE EndTask(t, Ended(t, step.out, step.found))

\* a variant of the runtime that polls a task only while the loop that
\* spawned it receives
RunsWhileLoop(t) == Receives(loops[t.at.loop])

\* tokio::task::spawn(process_recieved_packet(..)) in loop_recv drops the
\* JoinHandle: the runtime polls the task whatever becomes of the loop
Runs(t) == TRUE

\* a step of a task, of the phase `pc`
RunTask(t, pc) ==
    /\ BagIn(t, tasks)
    /\ t.pc = pc
    /\ Runs(t)
    /\ RunTaskStep(t, TaskStep(t, db_storage, db_lock))
    /\ UNCHANGED <<generated, serverVars, net, clientVars, count>>

\* a spawned task runs up to its first wait
ProcessPacket(t) == RunTask(t, "spawned")
\* a GetFlights task under the read guard ends
EndGetFlights(t) == RunTask(t, "reading")
\* a RequestTicket task under the write guard ends
EndRequestTicket(t) == RunTask(t, "popped")

\* the seat codes a flight holds
SeatsOf(flight) == {flight.seats[i] : i \in 1..Len(flight.seats)}

\* Distributor::gen_fake_flight
GenFlight(rows) ==
    /\ Len(db_storage) < MaxFlights
    /\ CanWrite(db_lock)
    /\ ~db_lock.poisoned
    /\ db_storage' = GenFakeFlight(db_storage, rows)
    /\ generated' = Append(generated, SeatsOf(db_storage'[Len(db_storage')]))
    /\ UNCHANGED <<db_lock, serverVars, net, tasks, done, clientVars, inbox, count>>

(***************************************************************************)
(* ClientSide and Passenger.  A call of the client API is two steps: up    *)
(* to socket.recv (pc "ping_wait" inside set_server's timeout, "recv_wait" *)
(* otherwise), and from the datagram received to the return.               *)
(***************************************************************************)
\* what a call's second half answers: the value returned (or the panic),
\* is_connected, and the ticket pushed to acquired_tickets if any
Outcome(r, connected, pushed) ==
    [panic |-> FALSE, ret |-> r, is_connected |-> connected, pushed |-> pushed]
Panic(connected) ==
    [panic |-> TRUE, ret |-> NoRet, is_connected |-> connected, pushed |-> None]

\* send_and_recv up to socket.send: the error returned, or the bytes sent
SendAndRecvStart(cl, call, packet) ==
    IF ~cl.is_connected THEN [sent |-> None, ret |-> RetErr(call, "NotConnected")]
    ELSE IF ~IsSome(cl.peer) THEN [sent |-> None, ret |-> RetErr(call, "Io")]
    ELSE [sent |-> Some(to_bytes(packet)), ret |-> NoRet]

\* variants: a ping_server that accepts every reply, a set_server that
\* leaves is_connected as it set it
PingResultAny(packet) == RetOk("connect", None)
SetServerEndKeeps(r) == Outcome(r, TRUE, None)

\* ping_server after its send_and_recv returned `packet`
PingResult(packet) ==
    IF response(packet) # RespOk
    THEN RetErr("connect", "ConnectionRefused")
    ELSE RetOk("connect", None)

\* set_server after ping_server returned r
SetServerEnd(r) == Outcome(r, r.kind = "ok", None)

\* fetch_flights after send_and_recv returned `packet`
FetchFlightsOf(flights) ==
    IF ~flights.ok THEN Panic(TRUE)
    ELSE Outcome(RetOk("fetch", flights.flights), TRUE, None)
FetchData(data) ==
    IF ~data.ok THEN Panic(TRUE)
    ELSE FetchFlightsOf(convert_to_flightinfo(data.data))
FetchResult(packet) ==
    IF response(packet) = RespOk
    THEN FetchData(try_retrieve_data(packet))
    ELSE Outcome(RetErr("fetch", "InvalidData"), TRUE, None)

\* a variant of query_ticket_for_a_flight that maps every answer without a
\* seat to the InvalidData error
QueryTicketStrict(flight_num, ticket) ==
    IF ticket.ok
    THEN Outcome(RetOk("query", Some(ticket.str)), TRUE,
                 Some([flight_num |-> flight_num, ticket |-> ticket.str]))
    ELSE Outcome(RetErr("query", "InvalidData"), TRUE, None)
QueryDataStrict(flight_num, data) ==
    IF data.ok THEN QueryTicketStrict(flight_num, from_utf8(data.data))
    ELSE Outcome(RetErr("query", "InvalidData"), TRUE, None)
QueryResultStrict(flight_num, packet) ==
    IF response(packet) = RespOk
    THEN QueryDataStrict(flight_num, try_retrieve_data(packet))
    ELSE Outcome(RetErr("query", "InvalidData"), TRUE, None)

\* a variant of query_ticket_for_a_flight that returns the ticket without
\* pushing it to acquired_tickets
QueryTicketOfForgets(flight_num, ticket) ==
    IF ~ticket.ok THEN Panic(TRUE)
    ELSE Outcome(RetOk("query", Some(ticket.str)), TRUE, None)

\* query_ticket_for_a_flight after send_and_recv returned `packet`
QueryTicketOf(flight_num, ticket) ==
    IF ~ticket.ok THEN Panic(TRUE)
    ELSE Outcome(RetOk("query", Some(ticket.str)), TRUE,
                 Some([flight_num |-> flight_num, ticket |-> ticket.str]))
QueryData(flight_num, data) ==
    IF ~data.ok THEN Panic(TRUE)
    ELSE QueryTicketOf(flight_num, from_utf8(data.data))
QueryResult(flight_num, packet) ==
    IF response(packet) \in {RespNone, TicketsSold}
    THEN Outcome(RetOk("query", None), TRUE, None)
    ELSE IF response(packet) = RespOk
    THEN QueryData(flight_num, try_retrieve_data(packet))
    ELSE Outcome(RetErr("query", "InvalidData"), TRUE, None)

\* the second half of a call, by the call that waits
CallEnd(cl, packet) ==
    IF cl.call = "connect" THEN SetServerEnd(PingResult(packet))
    ELSE IF cl.call = "fetch" THEN FetchResult(packet)
    ELSE IF cl.call = "query" THEN QueryResult(cl.arg, packet)
    ELSE Outcome(RetOk("exchange", Some(packet)), TRUE, None)

\* ClientSide::set_server (Passenger::try_connect), up to the recv of ping_server
SetServer(c, addr) ==
    /\ client[c].pc = "idle"
    /\ count.calls > 0
    /\ count' = [count EXCEPT !.calls = @ - 1]
    /\ IF ~Resolves(addr)
       THEN \* socket.connect(..).await? returns the error
            /\ client' = [client EXCEPT ![c].is_connected = TRUE,
                                        ![c].connect_ret = RetErr("connect", "InvalidInput")]
            /\ ret' = [ret EXCEPT ![c] = RetErr("connect", "InvalidInput")]
            /\ UNCHANGED net
       ELSE \* ping_server sends its Ping
            /\ client' = [client EXCEPT ![c].is_connected = TRUE,
                                        ![c].peer = Some(addr),
                                        ![c].pc = "ping_wait",
                                        ![c].call = "connect",
                                        ![c].connect_ret = Pending]
            /\ net' = net (+) One([src |-> c, bytes |-> to_bytes(PingPacket)])
            /\ UNCHANGED ret
    /\ UNCHANGED <<ledgerVars, serverVars, tasks, done, inbox, acquired_tickets, answers>>

\* a variant of send_and_recv that sends its request a second time
BeginCallResends(c, call, arg, s) ==
    IF IsSome(s.sent)
    THEN /\ net' = net (+) One([src |-> c, bytes |-> Unwrap(s.sent)])
                        (+) One([src |-> c, bytes |-> Unwrap(s.sent)])
         /\ client' = [client EXCEPT ![c].pc = "recv_wait", ![c].call = call,
                                     ![c].arg = arg]
         /\ UNCHANGED ret
    ELSE /\ ret' = [ret EXCEPT ![c] = s.ret]
         /\ UNCHANGED <<net, client>>

\* the effect of send_and_recv up to its recv, s being what its start answers
BeginCallWith(c, call, arg, s) ==
    IF IsSome(s.sent)
    THEN /\ net' = net (+) One([src |-> c, bytes |-> Unwrap(s.sent)])
         /\ client' = [client EXCEPT ![c].pc = "recv_wait", ![c].call = call,
                                     ![c].arg = arg]
         /\ UNCHANGED ret
    ELSE /\ ret' = [ret EXCEPT ![c] = s.ret]
         /\ UNCHANGED <<net, client>>

\* a call that is one send_and_recv, up to its recv
BeginCall(c, call, arg, packet) ==
    /\ client[c].pc = "idle"
    /\ count.calls > 0
    /\ count' = [count EXCEPT !.calls = @ - 1]
    /\ BeginCallWith(c, call, arg, SendAndRecvStart(client[c], call, packet))
    /\ UNCHANGED <<ledgerVars, serverVars, tasks, done, inbox, acquired_tickets, answers>>

\* ClientSide::send_and_recv called with `packet`
SendAndRecv(c, packet) == BeginCall(c, "exchange", 0, packet)

\* Passenger::fetch_flights
FetchFlights(c) == BeginCall(c, "fetch", 0, GetFlightsPacket)

\* Passenger::query_ticket_for_a_flight
QueryTicket(c, flight_num) ==
    BeginCall(c, "query", flight_num, RequestTicketPacket[flight_num])

\* the call of client c ends with the outcome o
EndCall(c, o) ==
    /\ client' = [client EXCEPT ![c].pc = IF o.panic THEN "panicked" ELSE "idle",
                                ![c].is_connected = o.is_connected,
                                ![c].connect_ret =
                                    IF client[c].call = "connect" THEN o.ret ELSE @]
    /\ ret' = [ret EXCEPT ![c] = o.ret]
    /\ answers' = IF client[c].call = "query" /\ ~o.panic
                  THEN answers (+) One([by |-> c, flight_num |-> client[c].arg,
                                        kind |-> o.ret.kind, val |-> o.ret.val])
                  ELSE answers
    /\ acquired_tickets' =
          IF IsSome(o.pushed)
          THEN [acquired_tickets EXCEPT ![c] = Append(@, Unwrap(o.pushed))]
          ELSE acquired_tickets

\* buff[..len].to_vec().into(): a panic where the bytes hold no packet
RecvOutcome(cl, parsed) ==
    IF parsed.ok THEN CallEnd(cl, parsed.packet) ELSE Panic(cl.is_connected)

\* socket.recv returns the datagram d: the packet decoded and the call ended
ClientRecv(c, d) ==
    /\ client[c].pc \in {"ping_wait", "recv_wait"}
    /\ BagIn(d, inbox[c])
    /\ inbox' = [inbox EXCEPT ![c] = @ (-) One(d)]
    /\ EndCall(c, RecvOutcome(client[c], from_bytes(RecvInto(d))))
    /\ UNCHANGED <<ledgerVars, serverVars, net, tasks, done, count>>

\* timeout(Duration::from_secs(1), send_and_recv(..)) elapses: ping_server
\* returns the error and set_server clears is_connected
PingTimeout(c) ==
    /\ client[c].pc = "ping_wait"
    /\ LET o == SetServerEnd(RetErr("connect", "TimedOut")) IN
       /\ client' = [client EXCEPT ![c].pc = "idle", ![c].is_connected = o.is_connected,
                                   ![c].connect_ret = o.ret]
       /\ ret' = [ret EXCEPT ![c] = o.ret]
    /\ UNCHANGED <<ledgerVars, serverVars, net, tasks, done, inbox, acquired_tickets,
                   answers, count>>

(***************************************************************************)
(* The transport: UDP may lose or duplicate a datagram (and reorders: the  *)
(* datagrams in flight are bags).                                          *)
(***************************************************************************)
LoseRequest(d) ==
    /\ count.faults > 0
    /\ BagIn(d, net)
    /\ net' = net (-) One(d)
    /\ count' = [count EXCEPT !.faults = @ - 1, !.lost = TRUE]
    /\ UNCHANGED <<ledgerVars, serverVars, tasks, done, clientVars, inbox>>

DupRequest(d) ==
    /\ count.faults > 0
    /\ BagIn(d, net)
    /\ net' = net (+) One(d)
    /\ count' = [count EXCEPT !.faults = @ - 1, !.duplicated = TRUE]
    /\ UNCHANGED <<ledgerVars, serverVars, tasks, done, clientVars, inbox>>

LoseReply(c, d) ==
    /\ count.faults > 0
    /\ BagIn(d, inbox[c])
    /\ inbox' = [inbox EXCEPT ![c] = @ (-) One(d)]
    /\ count' = [count EXCEPT !.faults = @ - 1, !.lost = TRUE]
    /\ UNCHANGED <<ledgerVars, serverVars, net, tasks, done, clientVars>>

DupReply(c, d) ==
    /\ count.faults > 0
    /\ BagIn(d, inbox[c])
    /\ inbox' = [inbox EXCEPT ![c] = @ (+) One(d)]
    /\ count' = [count EXCEPT !.faults = @ - 1, !.duplicated = TRUE]
    /\ UNCHANGED <<ledgerVars, serverVars, net, tasks, done, clientVars>>

\* any peer may send any bytes to the server's socket: a datagram that is
\* no packet arrives from the address src
ForeignDatagram(src, bytes) ==
    /\ count.faults > 0
    /\ net' = net (+) One([src |-> src, bytes |-> bytes])
    /\ count' = [count EXCEPT !.faults = @ - 1]
    /\ UNCHANGED <<ledgerVars, serverVars, tasks, done, clientVars, inbox>>

(***************************************************************************)
(* The distributor and its passengers.  Distributor::new installs the      *)
(* ledger's handler and starts the server; each Passenger has connected.   *)
(* A run starts where an earlier part of the distributor's life has left   *)
(* it: with no flight yet, or with the flight of gen_fake_flight(1) and    *)
(* some of its seats reserved, one after the other, by a passenger whose   *)
(* session is over.                                                        *)
(***************************************************************************)
\* seats of the first flight reserved before the run starts
MaxPreSold == 5

\* the passenger of the reservations made before the run starts
EarlierPassenger == NumClients + 1

\* the server of Distributor::new_with_address: set_logic_fn, then start
DistributorServer ==
    [is_running |-> TRUE, loop_handle |-> Some(1), processing_fn |-> LogicFn]

\* a client after a try_connect that succeeded
ConnectedClient ==
    [NewClient EXCEPT !.is_connected = TRUE, !.peer = Some(ServerAddr),
                      !.call = "connect", !.connect_ret = RetOk("connect", None)]

\* the distributor's side after one more RequestTicket for flight 1, handled
\* with no other task running, and what its passenger was answered
ReservedAnswer(w, db, e, a) ==
    [db |-> db, done |-> w.done (+) One(e),
     answers |-> w.answers (+) One([by |-> EarlierPassenger, flight_num |-> 1,
                                    kind |-> a.ret.kind, val |-> a.ret.val])]
ReservedEnd(w, db, e) ==
    ReservedAnswer(w, db, e, QueryResult(1, from_bytes(Unwrap(e.sent).bytes).packet))
ReservedLast(w, t, s) == ReservedEnd(w, s.db, Ended(t, s.out, s.found))
ReservedFirst(w, t, s) ==
    IF IsSome(s.cont)
    THEN ReservedLast(w, Unwrap(s.cont), TaskStep(Unwrap(s.cont), s.db, s.lock))
    ELSE ReservedLast(w, t, s)
ReservedTask(w, t) == ReservedFirst(w, t, TaskStep(t, w.db, UnlockedLock))
Reserved(w) ==
    ReservedTask(w, NewTask(EarlierPassenger, to_bytes(RequestTicketPacket[1]), LogicFn,
                            ReceivedAt(1, DistributorServer, <<NewLoop(LogicFn)>>,
                                       EmptyBag)))

RECURSIVE PreSold(_)
PreSold(k) ==
    IF k = 0
    THEN [db |-> GenFakeFlight(<< >>, 1), done |-> EmptyBag, answers |-> EmptyBag]
    ELSE Reserved(PreSold(k - 1))

NoFlights == [db |-> << >>, done |-> EmptyBag, answers |-> EmptyBag]

Starts == {NoFlights} \cup {PreSold(k) : k \in 0..MaxPreSold}

InitTransport ==
    /\ db_lock = UnlockedLock
    /\ net = EmptyBag
    /\ tasks = EmptyBag
    /\ inbox = [c \in Clients |-> EmptyBag]
    /\ acquired_tickets = [c \in Clients |-> << >>]
    /\ ret = [c \in Clients |-> NoRet]

Init ==
    /\ InitTransport
    /\ \E w \in Starts :
          /\ db_storage = w.db
          /\ generated = [i \in 1..Len(w.db) |-> SeatsOf(PreSold(0).db[i])]
          /\ done = w.done
          /\ answers = w.answers
    /\ server = DistributorServer
    /\ loops = <<NewLoop(LogicFn)>>
    /\ client = [c \in Clients |-> ConnectedClient]
    /\ count = [calls |-> MaxCalls, faults |-> MaxFaults, starts |-> 0, sets |-> 0,
                lost |-> FALSE, duplicated |-> FALSE]

Next ==
    \/ \E rows \in RowInputs : GenFlight(rows)
    \/ \E l \in 1..Len(loops) : \E d \in BagToSet(net) : ServerRecv(l, d)
    \/ \E t \in BagToSet(tasks) : ProcessPacket(t)
    \/ \E t \in BagToSet(tasks) : EndGetFlights(t)
    \/ \E t \in BagToSet(tasks) : EndRequestTicket(t)
    \/ \E c \in Clients : FetchFlights(c)
    \/ \E c \in Clients : \E n \in FlightInputs : QueryTicket(c, n)
    \/ \E c \in Clients : \E d \in BagToSet(inbox[c]) : ClientRecv(c, d)
    \/ \E d \in BagToSet(net) : LoseRequest(d)
    \/ \E d \in BagToSet(net) : DupRequest(d)
    \/ \E c \in Clients : \E d \in BagToSet(inbox[c]) : LoseReply(c, d)
    \/ \E c \in Clients : \E d \in BagToSet(inbox[c]) : DupReply(c, d)

Spec == Init /\ [][Next]_vars

(***************************************************************************)
(* A ServerSide and its ClientSides, as the crate udp_tools has them: the  *)
(* server as new_with_address leaves it (not started, the default handler) *)
(* and clients that have not connected.  The handlers touch no ledger.     *)
(***************************************************************************)
\* the packets send_and_recv is called with
ExchangePackets == {PingPacket, GetFlightsPacket}

InitNet ==
    /\ InitTransport
    /\ db_storage = << >>
    /\ generated = << >>
    /\ done = EmptyBag
    /\ answers = EmptyBag
    /\ server = NewServer
    /\ loops = << >>
    /\ client = [c \in Clients |-> NewClient]
    /\ count = [calls |-> MaxCalls, faults |-> MaxFaults, starts |-> MaxStarts,
                sets |-> MaxSets, lost |-> FALSE, duplicated |-> FALSE]

NextNet ==
    \/ \E polled \in BOOLEAN : Start(polled)
    \/ \E polled \in BOOLEAN : Stop(polled)
    \/ \E l \in 1..Len(loops) : LoopCancelled(l)
    \/ \E fn \in ProcessingFns : SetProcessingFn(fn)
    \/ \E l \in 1..Len(loops) : \E d \in BagToSet(net) : ServerRecv(l, d)
    \/ \E t \in BagToSet(tasks) : ProcessPacket(t)
    \/ \E c \in Clients : \E addr \in Addresses : SetServer(c, addr)
    \/ \E c \in Clients : \E packet \in ExchangePackets : SendAndRecv(c, packet)
    \/ \E c \in Clients : \E d \in BagToSet(inbox[c]) : ClientRecv(c, d)
    \/ \E c \in Clients : PingTimeout(c)
    \/ \E d \in BagToSet(net) : LoseRequest(d)
    \/ \E d \in BagToSet(net) : DupRequest(d)
    \/ \E c \in Clients : \E d \in BagToSet(inbox[c]) : LoseReply(c, d)
    \/ \E c \in Clients : \E d \in BagToSet(inbox[c]) : DupReply(c, d)

SpecNet == InitNet /\ [][NextNet]_vars

(***************************************************************************)
(* The life of a ServerSide: it is started, stopped and started again, its *)
(* handler is replaced, its socket may fail, while clients connect to it.  *)
(* The transport loses and duplicates nothing here.                        *)
(***************************************************************************)
\* starts of the receive loop one such run makes
MaxRestarts == 2

InitServer ==
    /\ InitTransport
    /\ db_storage = << >>
    /\ generated = << >>
    /\ done = EmptyBag
    /\ answers = EmptyBag
    /\ server = NewServer
    /\ loops = << >>
    /\ client = [c \in Clients |-> NewClient]
    /\ count = [calls |-> MaxCalls, faults |-> MaxFaults, starts |-> MaxRestarts,
                sets |-> MaxSets, lost |-> FALSE, duplicated |-> FALSE]

NextServer ==
    \/ \E polled \in BOOLEAN : Start(polled)
    \/ \E polled \in BOOLEAN : Stop(polled)
    \/ \E l \in 1..Len(loops) : LoopCancelled(l)
    \/ \E l \in 1..Len(loops) : LoopFails(l)
    \/ \E fn \in ProcessingFns : SetProcessingFn(fn)
    \/ \E l \in 1..Len(loops) : \E d \in BagToSet(net) : ServerRecv(l, d)
    \/ \E t \in BagToSet(tasks) : ProcessPacket(t)
    \/ \E c \in Clients : SetServer(c, ServerAddr)
    \/ \E c \in Clients : \E d \in BagToSet(inbox[c]) : ClientRecv(c, d)
    \/ \E c \in Clients : PingTimeout(c)

SpecServer == InitServer /\ [][NextServer]_vars

(***************************************************************************)
(* A ServerSide that holds the distributor's handler, with one flight in   *)
(* its ledger, is stopped while passengers reserve seats.                  *)
(***************************************************************************)
InitStop ==
    /\ InitTransport
    /\ db_storage = PreSold(0).db
    /\ generated = [i \in 1..Len(db_storage) |-> SeatsOf(db_storage[i])]
    /\ done = EmptyBag
    /\ answers = EmptyBag
    /\ server = DistributorServer
    /\ loops = <<NewLoop(LogicFn)>>
    /\ client = [c \in Clients |-> ConnectedClient]
    /\ count = [calls |-> MaxCalls, faults |-> 0, starts |-> 0, sets |-> 0,
                lost |-> FALSE, duplicated |-> FALSE]

NextStop ==
    \/ \E polled \in BOOLEAN : Stop(polled)
    \/ \E l \in 1..Len(loops) : LoopCancelled(l)
    \/ \E l \in 1..Len(loops) : \E d \in BagToSet(net) : ServerRecv(l, d)
    \/ \E t \in BagToSet(tasks) : ProcessPacket(t)
    \/ \E t \in BagToSet(tasks) : EndRequestTicket(t)
    \/ \E c \in Clients : \E n \in FlightInputs : QueryTicket(c, n)
    \/ \E c \in Clients : \E d \in BagToSet(inbox[c]) : ClientRecv(c, d)

SpecStop == InitStop /\ [][NextStop]_vars

(***************************************************************************)
(* The distributor, with one flight in its ledger, is sent requests it     *)
(* cannot serve and datagrams that are no packets, among requests of       *)
(* passengers.                                                             *)
(***************************************************************************)
\* RequestTicket packets whose payload the handler cannot use: a wrong
\* secret, no payload, a wrong crc, a payload of fewer than 4 bytes
WrongSecret == [RequestTicketPacket[1] EXCEPT !.secret = 0]
NoPayload == new_with_request(RequestTicket)
WrongCrc ==
    [RequestTicketPacket[1] EXCEPT
        !.data = Some([Unwrap(@) EXCEPT !.crc = (@ + 1) % U16Limit])]
ShortPayload == set_data(new_with_request(RequestTicket), <<1, 0, 0>>)
MalformedRequests == {WrongSecret, NoPayload, WrongCrc, ShortPayload}

\* datagrams that hold no packet: an empty one, one that holds a CBOR integer
Garbage == {<< >>, <<0>>}

InitBad ==
    /\ InitTransport
    /\ db_storage = PreSold(0).db
    /\ generated = [i \in 1..Len(db_storage) |-> SeatsOf(db_storage[i])]
    /\ done = EmptyBag
    /\ answers = EmptyBag
    /\ server = DistributorServer
    /\ loops = <<NewLoop(LogicFn)>>
    /\ client = [c \in Clients |-> ConnectedClient]
    /\ count = [calls |-> MaxCalls, faults |-> MaxFaults, starts |-> 0, sets |-> 0,
                lost |-> FALSE, duplicated |-> FALSE]

NextBad ==
    \/ \E c \in Clients : \E bytes \in Garbage : ForeignDatagram(c, bytes)
    \/ \E l \in 1..Len(loops) : \E d \in BagToSet(net) : ServerRecv(l, d)
    \/ \E t \in BagToSet(tasks) : ProcessPacket(t)
    \/ \E t \in BagToSet(tasks) : EndGetFlights(t)
    \/ \E t \in BagToSet(tasks) : EndRequestTicket(t)
    \/ \E c \in Clients : FetchFlights(c)
    \/ \E c \in Clients : \E n \in FlightInputs : QueryTicket(c, n)
    \/ \E c \in Clients : \E packet \in MalformedRequests : SendAndRecv(c, packet)
    \/ \E c \in Clients : \E d \in BagToSet(inbox[c]) : ClientRecv(c, d)

SpecBad == InitBad /\ [][NextBad]_vars

(***************************************************************************)
(* The distributor and its connected passengers over a transport that      *)
(* loses and duplicates more than one datagram.  A client calls            *)
(* fetch_flights, or send_and_recv with a Ping.                            *)
(***************************************************************************)
\* datagrams the transport loses or duplicates in one such run
MaxTransportFaults == 2

InitLossy ==
    /\ InitTransport
    /\ db_storage = PreSold(0).db
    /\ generated = [i \in 1..Len(db_storage) |-> SeatsOf(db_storage[i])]
    /\ done = EmptyBag
    /\ answers = EmptyBag
    /\ server = DistributorServer
    /\ loops = <<NewLoop(LogicFn)>>
    /\ client = [c \in Clients |-> ConnectedClient]
    /\ count = [calls |-> MaxCalls, faults |-> MaxTransportFaults, starts |-> 0,
                sets |-> 0, lost |-> FALSE, duplicated |-> FALSE]

NextLossy ==
    \/ \E l \in 1..Len(loops) : \E d \in BagToSet(net) : ServerRecv(l, d)
    \/ \E t \in BagToSet(tasks) : ProcessPacket(t)
    \/ \E t \in BagToSet(tasks) : EndGetFlights(t)
    \/ \E c \in Clients : FetchFlights(c)
    \/ \E c \in Clients : SendAndRecv(c, PingPacket)
    \/ \E c \in Clients : \E d \in BagToSet(inbox[c]) : ClientRecv(c, d)
    \/ \E d \in BagToSet(net) : LoseRequest(d)
    \/ \E d \in BagToSet(net) : DupRequest(d)
    \/ \E c \in Clients : \E d \in BagToSet(inbox[c]) : LoseReply(c, d)
    \/ \E c \in Clients : \E d \in BagToSet(inbox[c]) : DupReply(c, d)

SpecLossy == InitLossy /\ [][NextLossy]_vars

(***************************************************************************)
(* UdpPacket on the wire.  A ServerSide on which set_processing_fn was     *)
(* never called is started and its clients have connected.  The clients    *)
(* send packets built by new_with_request, set_response and set_data; a    *)
(* peer sends packets whose fields were changed after they were built.     *)
(***************************************************************************)
\* the payloads set_data is given
PayloadInputs == {<< >>, <<7>>, <<255>>, <<1, 2, 3>>}

\* new_with_request(..).set_response(..): no payload
FreshPackets ==
    {set_response(new_with_request(r), s) : r \in PacketRequest, s \in PacketResponse}

\* the packets built through the API
PacketInputs == FreshPackets \cup {set_data(p, d) : p \in FreshPackets, d \in PayloadInputs}

\* packet.data[i] with its bit k changed and the crc left as it is
\* (toolpacketdata_bad_data: packet.data[0] = 5)
FlipDataBit(packet, i, k) == [packet EXCEPT !.data[1].data[i] = ToggleBit(@, k)]

\* every change of one bit of the payload of a Ping
BitFlips ==
    UNION {{FlipDataBit(set_data(PingPacket, d), i, k) : i \in 1..Len(d), k \in 0..7} :
              d \in PayloadInputs}

\* a payload, and other bytes of the same checksum
StoredPayload == <<1, 2, 3>>
CollidingPayload == <<16, 10, 2>>

\* the packet of StoredPayload with its bytes replaced
Collision == [set_data(PingPacket, StoredPayload) EXCEPT !.data[1].data = CollidingPayload]

\* packets whose secret is not 51: with no payload, with a payload, with a
\* payload that does not match its crc
BadSecrets ==
    {[p EXCEPT !.secret = Secret - 1] :
        p \in {PingPacket, set_data(PingPacket, StoredPayload),
               FlipDataBit(set_data(PingPacket, StoredPayload), 1, 0)}}

\* the packets a peer sends that the API does not build
AlteredPackets == BitFlips \cup {Collision} \cup BadSecrets

\* calls of send_and_recv one such run makes
MaxPacketCalls == 1

\* ServerSide::new_with_address, then start
StartedServer == [NewServer EXCEPT !.is_running = TRUE, !.loop_handle = Some(1)]

InitPacket ==
    /\ InitTransport
    /\ db_storage = << >>
    /\ generated = << >>
    /\ done = EmptyBag
    /\ answers = EmptyBag
    /\ server = StartedServer
    /\ loops = <<NewLoop(DefaultFn)>>
    /\ client = [c \in Clients |-> ConnectedClient]
    /\ count = [calls |-> MaxPacketCalls, faults |-> MaxFaults, starts |-> 0, sets |-> 0,
                lost |-> FALSE, duplicated |-> FALSE]

NextPacket ==
    \/ \E c \in Clients : \E packet \in PacketInputs : SendAndRecv(c, packet)
    \/ \E c \in Clients : \E packet \in AlteredPackets :
          ForeignDatagram(c, to_bytes(packet))
    \/ \E l \in 1..Len(loops) : \E d \in BagToSet(net) : ServerRecv(l, d)
    \/ \E t \in BagToSet(tasks) : ProcessPacket(t)
    \/ \E c \in Clients : \E d \in BagToSet(inbox[c]) : ClientRecv(c, d)

SpecPacket == InitPacket /\ [][NextPacket]_vars

(***************************************************************************)
(* gen_fake_flight on every u8: the distributor generates flights of any   *)
(* number of rows asked for; no request is served.                         *)
(***************************************************************************)
\* rows: u8
AllRows == 0..U8Limit

InitRows ==
    /\ InitTransport
    /\ db_storage = << >>
    /\ generated = << >>
    /\ done = EmptyBag
    /\ answers = EmptyBag
    /\ server = DistributorServer
    /\ loops = <<NewLoop(LogicFn)>>
    /\ client = [c \in Clients |-> NewClient]
    /\ count = [calls |-> 0, faults |-> 0, starts |-> 0, sets |-> 0,
                lost |-> FALSE, duplicated |-> FALSE]

NextRows == \E rows \in AllRows : GenFlight(rows)

SpecRows == InitRows /\ [][NextRows]_vars

\* Passenger::fetch_flights, the call keeping in arg (which fetch_flights
\* does not use) how many flights the ledger held when it began
FetchFlightsSince(c) == BeginCall(c, "fetch", Len(db_storage), GetFlightsPacket)

\* The passengers list the flights and reserve seats while flights are
\* generated, over a transport that loses nothing and may deliver a datagram
\* twice.
NextListing ==
    \/ \E rows \in RowInputs : GenFlight(rows)
    \/ \E l \in 1..Len(loops) : \E d \in BagToSet(net) : ServerRecv(l, d)
    \/ \E t \in BagToSet(tasks) : ProcessPacket(t)
    \/ \E t \in BagToSet(tasks) : EndGetFlights(t)
    \/ \E t \in BagToSet(tasks) : EndRequestTicket(t)
    \/ \E c \in Clients : FetchFlightsSince(c)
    \/ \E c \in Clients : \E n \in FlightInputs : QueryTicket(c, n)
    \/ \E c \in Clients : \E d \in BagToSet(inbox[c]) : ClientRecv(c, d)
    \/ \E d \in BagToSet(net) : DupRequest(d)
    \/ \E c \in Clients : \E d \in BagToSet(inbox[c]) : DupReply(c, d)

SpecListing == Init /\ [][NextListing]_vars

\* The passengers start without a server: they connect, list the flights
\* and ask for tickets, in any order, while the distributor serves one
\* flight; the transport may deliver a reply twice.
MaxPassengerCalls == 4

InitPassenger ==
    /\ InitTransport
    /\ db_storage = PreSold(0).db
    /\ generated = [i \in 1..Len(db_storage) |-> SeatsOf(db_storage[i])]
    /\ done = EmptyBag
    /\ answers = EmptyBag
    /\ server = DistributorServer
    /\ loops = <<NewLoop(LogicFn)>>
    /\ client = [c \in Clients |-> NewClient]
    /\ count = [calls |-> MaxPassengerCalls, faults |-> MaxFaults, starts |-> 0,
                sets |-> 0, lost |-> FALSE, duplicated |-> FALSE]

NextPassenger ==
    \/ \E l \in 1..Len(loops) : \E d \in BagToSet(net) : ServerRecv(l, d)
    \/ \E t \in BagToSet(tasks) : ProcessPacket(t)
    \/ \E t \in BagToSet(tasks) : EndGetFlights(t)
    \/ \E t \in BagToSet(tasks) : EndRequestTicket(t)
    \/ \E c \in Clients : \E addr \in Addresses : SetServer(c, addr)
    \/ \E c \in Clients : PingTimeout(c)
    \/ \E c \in Clients : FetchFlights(c)
    \/ \E c \in Clients : \E n \in FlightInputs : QueryTicket(c, n)
    \/ \E c \in Clients : \E d \in BagToSet(inbox[c]) : ClientRecv(c, d)
    \/ \E c \in Clients : \E d \in BagToSet(inbox[c]) : DupReply(c, d)

SpecPassenger == InitPassenger /\ [][NextPassenger]_vars

\* The distributor generates flights and serves its passengers while peers
\* send RequestTicket packets whose payload cannot be read, and datagrams
\* that hold no packet.
NextMalformed ==
    \/ \E rows \in RowInputs : GenFlight(rows)
    \/ \E c \in Clients : \E bytes \in Garbage : ForeignDatagram(c, bytes)
    \/ \E l \in 1..Len(loops) : \E d \in BagToSet(net) : ServerRecv(l, d)
    \/ \E t \in BagToSet(tasks) : ProcessPacket(t)
    \/ \E t \in BagToSet(tasks) : EndGetFlights(t)
    \/ \E t \in BagToSet(tasks) : EndRequestTicket(t)
    \/ \E c \in Clients : FetchFlights(c)
    \/ \E c \in Clients : \E n \in FlightInputs : QueryTicket(c, n)
    \/ \E c \in Clients : \E packet \in MalformedRequests : SendAndRecv(c, packet)
    \/ \E c \in Clients : \E d \in BagToSet(inbox[c]) : ClientRecv(c, d)

SpecMalformed == InitBad /\ [][NextMalformed]_vars

(***************************************************************************)
(* A ledger of many flights is listed: gen_fake_flight has been called any *)
(* number of times up to MaxLedger, and one passenger calls fetch_flights. *)
(* The transport loses and duplicates nothing.                             *)
(***************************************************************************)
\* the flights the ledger holds at most
MaxLedger == 31

\* the ledger after n calls of gen_fake_flight(rows)
RECURSIVE LedgerOf(_, _)
LedgerOf(n, rows) ==
    IF n = 0 THEN << >> ELSE GenFakeFlight(LedgerOf(n - 1, rows), rows)

InitReply ==
    /\ InitTransport
    /\ \E n \in 0..MaxLedger : \E rows \in RowInputs : db_storage = LedgerOf(n, rows)
    /\ generated = [i \in 1..Len(db_storage) |-> SeatsOf(db_storage[i])]
    /\ done = EmptyBag
    /\ answers = EmptyBag
    /\ server = DistributorServer
    /\ loops = <<NewLoop(LogicFn)>>
    /\ client = [c \in Clients |-> ConnectedClient]
    /\ count = [calls |-> 1, faults |-> 0, starts |-> 0, sets |-> 0,
                lost |-> FALSE, duplicated |-> FALSE]

NextReply ==
    \/ \E c \in Clients : FetchFlights(c)
    \/ \E l \in 1..Len(loops) : \E d \in BagToSet(net) : ServerRecv(l, d)
    \/ \E t \in BagToSet(tasks) : ProcessPacket(t)
    \/ \E t \in BagToSet(tasks) : EndGetFlights(t)
    \/ \E c \in Clients : \E d \in BagToSet(inbox[c]) : ClientRecv(c, d)

SpecReply == InitReply /\ [][NextReply]_vars

\* The operator's menu beside the handlers: "see flights" prints the ledger
\* under a read guard, "genflight" calls gen_fake_flight.
MaxShows == 1

\* the tasks that hold a read guard
ReadingTasks ==
    BagCardinality([t \in {x \in BagToSet(tasks) : x.pc = "reading"} |-> tasks[t]])

\* the read guards the menu holds: those of the lock that no task holds
ShowingFlights == db_lock.readers - ReadingTasks

\* "see flights": distr.db_storage().read().unwrap(), granted when no write
\* guard is held
SeeFlightsBegin ==
    /\ count.shows > 0
    /\ ShowingFlights = 0
    /\ CanRead(db_lock)
    /\ ~db_lock.poisoned
    /\ db_lock' = [db_lock EXCEPT !.readers = @ + 1]
    /\ count' = [count EXCEPT !.shows = @ - 1]
    /\ UNCHANGED <<db_storage, generated, serverVars, net, tasks, done, clientVars, inbox>>

\* the flights printed (to stdout): the guard is dropped at the end of the for
SeeFlightsEnd ==
    /\ ShowingFlights > 0
    /\ db_lock' = [db_lock EXCEPT !.readers = @ - 1]
    /\ UNCHANGED <<db_storage, generated, serverVars, net, tasks, done, clientVars, inbox,
                   count>>

\* the ledger at the start: one flight with one seat left (generate_flight
\* adds the flights with all of their seats)
LedgerStarts == {PreSold(MaxPreSold)}

InitLedger ==
    /\ InitTransport
    /\ \E w \in LedgerStarts :
          /\ db_storage = w.db
          /\ generated = [i \in 1..Len(w.db) |-> SeatsOf(PreSold(0).db[i])]
          /\ done = w.done
          /\ answers = w.answers
    /\ server = DistributorServer
    /\ loops = <<NewLoop(LogicFn)>>
    /\ client = [c \in Clients |-> ConnectedClient]
    /\ count = [calls |-> MaxCalls, faults |-> MaxFaults, starts |-> 0, sets |-> 0,
                lost |-> FALSE, duplicated |-> FALSE, shows |-> MaxShows]

\* the passengers of the run: the last one reserves, the others list the
\* flights (two reservations meet in the handler when the network
\* duplicates a request)
Reservers == {NumClients}
Listers == Clients \ Reservers

NextLedger ==
    \/ \E rows \in RowInputs : GenFlight(rows)
    \/ SeeFlightsBegin
    \/ SeeFlightsEnd
    \/ \E l \in 1..Len(loops) : \E d \in BagToSet(net) : ServerRecv(l, d)
    \/ \E t \in BagToSet(tasks) : ProcessPacket(t)
    \/ \E t \in BagToSet(tasks) : EndGetFlights(t)
    \/ \E t \in BagToSet(tasks) : EndRequestTicket(t)
    \/ \E c \in Listers : FetchFlights(c)
    \/ \E c \in Reservers : \E n \in FlightInputs : QueryTicket(c, n)
    \/ \E c \in Clients : \E d \in BagToSet(inbox[c]) : ClientRecv(c, d)
    \/ \E d \in BagToSet(net) : DupRequest(d)

\* the runtime polls every spawned task and the loop, and the thread of the
\* menu runs: a step that stays possible is taken

FairSpecLedger ==
    /\ InitLedger /\ [][NextLedger]_vars
    /\ WF_vars(SeeFlightsEnd)
    /\ WF_vars(\E l \in 1..Len(loops) : \E d \in BagToSet(net) : ServerRecv(l, d))
    /\ WF_vars(\E t \in BagToSet(tasks) : ProcessPacket(t))
    /\ WF_vars(\E t \in BagToSet(tasks) : EndGetFlights(t))
    /\ WF_vars(\E t \in BagToSet(tasks) : EndRequestTicket(t))

\* the timer of ping_server's timeout runs: a client that waits in it is
\* not left waiting forever
FairSpecNet == SpecNet /\ \A c \in Clients : WF_vars(PingTimeout(c))

(***************************************************************************)
(* The properties of the ledger, checked under Spec.                       *)
(***************************************************************************)
\* the request a task that ended was given, and the flight it asked for
RequestOf(e) == from_bytes(e.bytes).packet
AskedFlight(e) == FlightNumOf(try_retrieve_data(RequestOf(e)).data).num

\* the tasks that ended with the handler's packet of the given response to a
\* RequestTicket for flight_num
Reservations(flight_num, resp) ==
    {e \in BagToSet(done) :
        /\ from_bytes(e.bytes).ok
        /\ request(RequestOf(e)) = RequestTicket
        /\ AskedFlight(e) = flight_num
        /\ IsSome(e.out)
        /\ response(Unwrap(e.out)) = resp}

\* the seat code a successful reservation returned
TicketOf(e) == Unwrap(Unwrap(e.out).data).data

\* the flights of the ledger, by number
FlightNums == {db_storage[i].info.num : i \in 1..Len(db_storage)}

\* C1: for every flight, under every interleaving of the RequestTicket
\* tasks, no two reservations that succeeded returned the same seat code,
\* and every reservation that succeeded found seats_num above 0.
C1_NoDoubleBooking ==
    \A n \in FlightNums :
        \A e1 \in Reservations(n, RespOk) :
            /\ CopiesIn(e1, done) = 1
            /\ e1.found > 0
            /\ \A e2 \in Reservations(n, RespOk) :
                  e1 # e2 => TicketOf(e1) # TicketOf(e2)

\* two RequestTicket tasks for one flight ran at the same time (the second
\* ended while the first waited for the lock or was spawned) and both
\* returned a seat
C1_Witness ==
    /\ count.calls = 0
    /\ \E n \in FlightNums :
          \E e1, e2 \in Reservations(n, RespOk) :
              /\ e1.src \in Clients /\ e2.src \in Clients
              /\ e1.src # e2.src

\* every datagram sent has been handled and answered, and none was lost or
\* duplicated
Settled ==
    /\ net = EmptyBag
    /\ tasks = EmptyBag
    /\ \A c \in Clients : inbox[c] = EmptyBag /\ client[c].pc = "idle"
    /\ ~count.lost /\ ~count.duplicated

\* what the calls of query_ticket_for_a_flight for a flight returned
AnswersFor(flight_num) ==
    LET of == {a \in BagToSet(answers) : a.flight_num = flight_num}
    IN  [a \in of |-> answers[a]]
SeatAnswers(flight_num) ==
    LET of == {a \in BagToSet(answers) : a.flight_num = flight_num /\ IsSome(a.val)}
    IN  [a \in of |-> answers[a]]
SeatsAnswered(flight_num) == {Unwrap(a.val) : a \in BagToSet(SeatAnswers(flight_num))}

\* each passenger of the run has called query_ticket_for_a_flight at most once
OneCallEach ==
    \A c \in Clients : BagCardinality([a \in {b \in BagToSet(answers) : b.by = c}
                                          |-> answers[a]]) <= 1

\* C2: for a flight generated with N seats, once M >= N calls of
\* query_ticket_for_a_flight were made for it by connected passengers, at the
\* same time or not (no datagram lost or duplicated, every call returned),
\* exactly N calls returned Some(seat) and M - N returned None, the N codes
\* are pairwise different, and they are the codes generated for the flight.
C2_ExactlyNSeats ==
    \A i \in 1..Len(db_storage) :
        LET n == db_storage[i].info.num
            N == Cardinality(generated[i])
            M == BagCardinality(AnswersFor(n))
        IN  (Settled /\ M >= N) =>
               /\ \A a \in BagToSet(AnswersFor(n)) : a.kind = "ok"
               /\ BagCardinality(SeatAnswers(n)) = N
               /\ BagCardinality(AnswersFor(n)) - BagCardinality(SeatAnswers(n)) = M - N
               /\ Cardinality(SeatsAnswered(n)) = N
               /\ SeatsAnswered(n) = generated[i]

\* the passengers of the run called at the same time (each has one answer),
\* more calls than seats were made, and one call returned None
C2_Witness ==
    /\ Settled
    /\ OneCallEach
    /\ Len(db_storage) >= 1
    /\ \A c \in Clients : \E a \in BagToSet(AnswersFor(1)) : a.by = c
    /\ BagCardinality(AnswersFor(1)) > Cardinality(generated[1])
    /\ \E a \in BagToSet(AnswersFor(1)) : a.by \in Clients /\ a.kind = "ok" /\ a.val = None
    /\ \E a \in BagToSet(AnswersFor(1)) : a.by \in Clients /\ IsSome(a.val)

\* the tasks that end in a step
EndedNow(e) == CopiesIn(e, done') > CopiesIn(e, done)

\* C3: once seats_num of a flight is 0 it stays 0 in every later state, also
\* when flights are generated or listed, and every RequestTicket for the
\* flight handled from then on is answered TicketsSold.
C3_SoldOutStays ==
    [][\A i \in 1..Len(db_storage) :
          db_storage[i].info.seats_num = 0 =>
             /\ Len(db_storage') >= i
             /\ db_storage'[i].info.num = db_storage[i].info.num
             /\ db_storage'[i].info.seats_num = 0
             /\ \A e \in BagToSet(done') :
                   (/\ EndedNow(e)
                    /\ from_bytes(e.bytes).ok
                    /\ request(RequestOf(e)) = RequestTicket
                    /\ AskedFlight(e) = db_storage[i].info.num)
                   => IsSome(e.out) /\ response(Unwrap(e.out)) = TicketsSold]_vars

\* a flight is sold out, another flight was generated after it, and a
\* passenger of the run was answered TicketsSold for the flight sold out
C3_Witness ==
    /\ Len(db_storage) >= 2
    /\ db_storage[1].info.seats_num = 0
    /\ db_storage[2].info.seats_num > 0
    /\ \E e \in Reservations(1, TicketsSold) : e.src \in Clients /\ e.found = 0
    /\ \E e \in Reservations(1, RespOk) : e.src \in Clients

\* C4: whenever no task holds the write guard, seats_num of every flight
\* equals the length of its seats.
C4_CounterMatchesSeats ==
    ~db_lock.writer =>
        \A i \in 1..Len(db_storage) :
            db_storage[i].info.seats_num = Len(db_storage[i].seats)

\* flights were generated, seats of one were reserved by passengers of the
\* run, the flights were listed, and no task holds the write guard
C4_Witness ==
    /\ ~db_lock.writer
    /\ Len(db_storage) >= 2
    /\ \E e \in Reservations(1, RespOk) : e.src \in Clients
    /\ \E c \in Clients : ret[c].kind = "ok" /\ ret[c].of = "fetch"
    /\ db_storage[1].info.seats_num < Cardinality(generated[1])

\* the seat codes issued for the flight at index i: those the reservations
\* that succeeded returned, and the one a task that has popped it is about
\* to return
Issued(i) ==
    {TicketOf(e) : e \in Reservations(db_storage[i].info.num, RespOk)}
    \cup {t.ticket : t \in {u \in BagToSet(tasks) : u.pc = "popped" /\ u.idx = i}}

\* {A..F} x {1..rows}, as seat codes
AllSeats(rows) == {SeatCode(SeatLetters[l], r) : l \in 1..Len(SeatLetters), r \in 1..rows}

\* C5: for every flight, in every state, the seat codes issued and the codes
\* in seats are disjoint, and together they are the codes {A..F} x {1..rows}
\* pushed when the flight was generated (so a code issued is never in seats
\* again).
C5_SeatsPartition ==
    \A i \in 1..Len(db_storage) :
        /\ Issued(i) \cap SeatsOf(db_storage[i]) = {}
        /\ Issued(i) \cup SeatsOf(db_storage[i]) = generated[i]
        /\ \E rows \in MinRows..MaxRows : generated[i] = AllSeats(rows)
        /\ Len(db_storage[i].seats) = Cardinality(SeatsOf(db_storage[i]))

\* a task has popped a seat of a flight of which other seats were issued
\* before and others are left
C5_Witness ==
    \E t \in BagToSet(tasks) :
        /\ t.pc = "popped"
        /\ Cardinality(Issued(t.idx)) >= 2
        /\ SeatsOf(db_storage[t.idx]) # {}

(***************************************************************************)
(* The properties of ServerSide and ClientSide, checked under SpecNet.     *)
(***************************************************************************)
\* the datagrams a client's socket gains or loses in a step
Gained(c, d) == CopiesIn(d, inbox'[c]) - CopiesIn(d, inbox[c])
Arriving(c) == {d \in BagToSet(inbox'[c]) : Gained(c, d) > 0}
Consumed(c) == {d \in BagToSet(inbox[c]) : Gained(c, d) < 0}

\* the step is the network's duplication of a datagram
Duplicating == count'.faults < count.faults

\* C6: the server never sends a packet whose response is None.  For every
\* datagram received, a handler packet with response None is not sent, and
\* any other is sent once, to the address the datagram came from; the server
\* sends nothing else.
C6_RepliesOnlyWhenNotNone ==
    /\ [](/\ \A e \in BagToSet(done) :
                IsSome(e.out) =>
                    IF response(Unwrap(e.out)) = RespNone THEN e.sent = None
                    ELSE e.sent = Some([to |-> e.src, bytes |-> to_bytes(Unwrap(e.out))])
          /\ \A c \in Clients : \A d \in BagToSet(inbox[c]) :
                from_bytes(d).ok /\ response(from_bytes(d).packet) # RespNone)
    /\ [][/\ \A e \in BagToSet(done') :
                (EndedNow(e) /\ IsSome(e.sent)) =>
                    /\ CopiesIn(e, done') = CopiesIn(e, done) + 1
                    /\ Arriving(e.src) = {Unwrap(e.sent).bytes}
                    /\ Gained(e.src, Unwrap(e.sent).bytes) = 1
                    /\ \A c \in Clients \ {e.src} : Arriving(c) = {}
          /\ \A c \in Clients :
                (Arriving(c) # {} /\ ~Duplicating) =>
                    \E e \in BagToSet(done') :
                        EndedNow(e) /\ e.sent = Some([to |-> c, bytes |-> e.sent[1].bytes])
         ]_vars

\* a handler answered Ok to a client's ping, which was replied to and let the
\* client connect, and None to its next datagram, which was not replied to
C6_Witness ==
    \E e1, e2 \in BagToSet(done) :
        /\ IsSome(e1.out) /\ response(Unwrap(e1.out)) = RespNone /\ e1.sent = None
        /\ IsSome(e2.out) /\ response(Unwrap(e2.out)) = RespOk
        /\ e2.sent = Some([to |-> e2.src, bytes |-> to_bytes(Unwrap(e2.out))])
        /\ e1.src = e2.src
        /\ client[e1.src].connect_ret = RetOk("connect", None)
        /\ client[e1.src].pc = "recv_wait"

\* C7 as stated: send_and_recv on a client whose last set_server did not
\* return Ok (none was called, or the last returned an error) returns the
\* "Not connected to any server!" error and sends no datagram.
C7_NotConnectedWithoutConnect ==
    [][\A c \in Clients : \A packet \in ExchangePackets :
          (SendAndRecv(c, packet) /\ client[c].connect_ret.kind # "ok") =>
              /\ ret'[c] = RetErr("exchange", "NotConnected")
              /\ net' = net]_vars

\* C8 as stated: when no set_server is in progress, connection_status() is
\* true only if the last set_server returned Ok, and it is false after a
\* set_server that returned an error.
C8_StatusFollowsConnect ==
    \A c \in Clients :
        client[c].pc = "idle" =>
            /\ client[c].is_connected => client[c].connect_ret.kind = "ok"
            /\ client[c].connect_ret.kind = "err" => ~client[c].is_connected

\* set_server has failed after its ping: timed out, or refused
TimedOut(c) ==
    /\ client[c].pc = "idle"
    /\ client[c].connect_ret = RetErr("connect", "TimedOut")
    /\ ret[c] = RetErr("connect", "TimedOut")
    /\ ~client[c].is_connected
Refused(c) ==
    /\ client[c].pc = "idle"
    /\ client[c].connect_ret = RetErr("connect", "ConnectionRefused")
    /\ ret[c] = RetErr("connect", "ConnectionRefused")
    /\ ~client[c].is_connected

\* C9: a set_server that waits for the reply to its ping does not wait
\* forever: unless a datagram arrives at the client's socket, it returns the
\* TimedOut error, and connection_status() is false after the timeout.
C9_HandshakeTimesOut ==
    /\ \A c \in Clients :
          (client[c].pc = "ping_wait") ~> (TimedOut(c) \/ inbox[c] # EmptyBag)
    /\ [][\A c \in Clients :
            (client[c].pc = "ping_wait" /\ client'[c].pc # "ping_wait" /\ Consumed(c) = {})
            => TimedOut(c)']_vars

\* the handler that answers None to everything ran for a client's ping, no
\* reply was sent, and the client's set_server timed out
C9_Witness ==
    \E c \in Clients :
        /\ TimedOut(c)
        /\ inbox[c] = EmptyBag
        /\ \E e \in BagToSet(done) :
              /\ e.src = c
              /\ e.bytes = to_bytes(PingPacket)
              /\ IsSome(e.out) /\ response(Unwrap(e.out)) = RespNone
              /\ e.sent = None
        /\ \E l \in 1..Len(loops) : loops[l].fn = ConstFn(RespNone)

\* C10: the reply set_server receives to its ping decides it: with a
\* response other than Ok (None, ErrorInRequest, TicketsSold) it returns the
\* ConnectionRefused error, not TimedOut, and is_connected is false; with Ok
\* it returns Ok and is_connected is true.
C10_ReplyDecidesConnect ==
    /\ \A r \in PacketResponse \ {RespOk} :
          SetServerEnd(PingResult(set_response(PingPacket, r)))
             = Outcome(RetErr("connect", "ConnectionRefused"), FALSE, None)
    /\ SetServerEnd(PingResult(set_response(PingPacket, RespOk)))
          = Outcome(RetOk("connect", None), TRUE, None)
    /\ [][\A c \in Clients : \A d \in Consumed(c) :
            (client[c].pc = "ping_wait" /\ client'[c].pc # "ping_wait"
                /\ from_bytes(RecvInto(d)).ok)
            => IF response(from_bytes(RecvInto(d)).packet) = RespOk
               THEN /\ client'[c].is_connected
                    /\ client'[c].pc = "idle"
                    /\ ret'[c] = RetOk("connect", None)
               ELSE Refused(c)']_vars

\* a handler answered a client's ping with a response other than Ok and the
\* client's set_server returned ConnectionRefused
C10_Witness ==
    \E c \in Clients :
        /\ Refused(c)
        /\ \E e \in BagToSet(done) :
              /\ e.src = c
              /\ e.bytes = to_bytes(PingPacket)
              /\ IsSome(e.sent)
              /\ response(Unwrap(e.out)) \in {ErrorInRequest, TicketsSold}


(***************************************************************************)
(* The receive loop and the calls of start, stop and set_processing_fn.    *)
(***************************************************************************)
\* the packet a task was spawned for
PacketIn(e) == from_bytes(e.bytes).packet

\* C11: a call of set_processing_fn while a receive loop runs does not
\* change how that loop processes datagrams: every task holds, and every
\* task that ended has applied, the handler the loop that received its
\* datagram was spawned with by start.
C11_HandlerCapturedAtStart ==
    /\ \A t \in BagToSet(tasks) : t.fn = loops[t.at.loop].fn
    /\ \A e \in BagToSet(done) :
          e.out = Some(ApplyFn(loops[e.at.loop].fn, PacketIn(e)))

\* a datagram received after set_processing_fn replaced the handler was
\* processed by the loop's handler, which answers unlike the new one
C11_Witness ==
    \E e \in BagToSet(done) :
        /\ e.at.replaced
        /\ e.out = Some(ApplyFn(loops[e.at.loop].fn, PacketIn(e)))
        /\ e.out # Some(ApplyFn(server.processing_fn, PacketIn(e)))
        /\ Receives(loops[e.at.loop])

\* the loops that still receive on the socket
ReceivingLoops == {l \in 1..Len(loops) : Receives(loops[l])}

\* C12: after stop(), set_processing_fn(h2), start(), every datagram received
\* from then on is processed by h2, never by the handler registered before:
\* every task holds, and every task that ended has applied, the handler of
\* the latest start() made before its datagram was received.
C12_RestartUsesNewHandler ==
    /\ \A t \in BagToSet(tasks) : t.fn = loops[t.at.starts].fn
    /\ \A e \in BagToSet(done) :
          e.out = Some(ApplyFn(loops[e.at.starts].fn, PacketIn(e)))

\* C13: after any sequence of start() and stop(), at most one receive loop
\* receives on the socket, and no datagram is dispatched by a loop that a
\* later start() has superseded.
C13_OneReceiveLoop ==
    /\ Cardinality(ReceivingLoops) <= 1
    /\ \A t \in BagToSet(tasks) : t.at.loop = t.at.starts
    /\ \A e \in BagToSet(done) : e.at.loop = e.at.starts

\* the states C14 names: the server was never started, is stopped, or its
\* loop has ended
NothingToStop ==
    \/ ~IsSome(server.loop_handle)
    \/ ~server.is_running
    \/ IsFinished(loops[Unwrap(server.loop_handle)])

\* C14: stop() called on a server that was never started, is already
\* stopped, or whose loop has ended, raises no error and leaves the server
\* stopped, with is_running false and no loop receiving; and a second
\* stop() changes nothing.
C14_StopIsSafe ==
    \A polled \in BOOLEAN :
        /\ ENABLED Stop(polled)
        /\ NothingToStop =>
              \A l \in 1..Len(loops) : ~Receives(AbortHandle(server, loops, polled)[l])
        /\ \A again \in BOOLEAN :
              AbortHandle([server EXCEPT !.is_running = FALSE],
                          AbortHandle(server, loops, polled), again)
                  = AbortHandle(server, loops, polled)

\* C15: a datagram that arrives after stop() has returned and before the
\* next start() is not passed to a handler: no task was spawned for a
\* datagram received while is_running was false.
C15_StoppedServerIsSilent ==
    /\ \A t \in BagToSet(tasks) : t.at.is_running
    /\ \A e \in BagToSet(done) : e.at.is_running

\* C16: stop() neither cancels nor waits for the tasks already spawned for
\* the datagrams received before it: stop() leaves them in progress, and a
\* task that does not wait for the lock can take its next step whatever the
\* state of the server and of the loop that spawned it.
C16_StopLeavesTasksRunning ==
    /\ [](\A t \in BagToSet(tasks) :
             ~TaskStep(t, db_storage, db_lock).blocked => ENABLED RunTask(t, t.pc))
    /\ [][\A polled \in BOOLEAN : Stop(polled) => tasks' = tasks]_vars

\* a task whose datagram was received before stop() ended after stop() had
\* returned and no loop received any more: it had taken a seat from the
\* ledger and its reply was sent
C16_Witness ==
    /\ ~server.is_running
    /\ ReceivingLoops = {}
    /\ \E e \in BagToSet(done) :
          /\ e.at.is_running
          /\ e.stopped
          /\ IsSome(e.out) /\ response(Unwrap(e.out)) = RespOk
          /\ IsSome(e.sent)
          /\ e.found > 0
          /\ db_storage[1].info.seats_num = e.found - 1

(***************************************************************************)
(* Datagrams the server cannot serve.                                      *)
(***************************************************************************)
\* the bytes of an ended task hold no packet
Undecodable(e) == ~from_bytes(e.bytes).ok

\* the handler of an ended task was called and panicked
HandlerFailed(e) == from_bytes(e.bytes).ok /\ ~IsSome(e.out)

BadTicketRequest(packet) ==
    /\ request(packet) = RequestTicket
    /\ \/ ~try_retrieve_data(packet).ok
       \/ ~FlightNumOf(try_retrieve_data(packet).data).ok

\* C18: the distributor's handler answers a RequestTicket whose payload
\* cannot be retrieved, or is no 4-byte flight number, with a reply of
\* response ErrorInRequest.
C18_MalformedIsAnswered ==
    \A e \in BagToSet(done) :
        (from_bytes(e.bytes).ok /\ BadTicketRequest(PacketIn(e))) =>
            /\ IsSome(e.out)
            /\ response(Unwrap(e.out)) = ErrorInRequest
            /\ IsSome(e.sent)

(***************************************************************************)
(* The datagrams of one call.                                              *)
(***************************************************************************)
\* the number of datagrams of the bag b that the client c sent
SentBy(c, b) ==
    BagCardinality([d \in {x \in BagToSet(b) : x.src = c} |-> b[d]])

\* the client is inside socket.recv
Waiting(cl) == cl.pc \in {"ping_wait", "recv_wait"}

\* the client's socket has a peer and is_connected is set
Associated(cl) == cl.is_connected /\ IsSome(cl.peer)

\* the transport lost or duplicated a datagram in this step
TransportFault == count'.faults < count.faults

\* C19: a call of send_and_recv on a connected session, and a call of
\* set_server whose address resolves, sends exactly one datagram and then
\* receives at most one: the step that starts the wait puts one datagram of
\* the client on the network and takes none from its socket, the client
\* sends nothing more while it waits or when the call ends, the end of the
\* wait takes at most one datagram from its socket, and only a call on a
\* session that is not connected (or a set_server whose address does not
\* resolve) returns without having sent.
C19_OneSendOneRecv ==
    [][\A c \in Clients :
          /\ (~Waiting(client[c]) /\ Waiting(client'[c])) =>
                 /\ SentBy(c, net') = SentBy(c, net) + 1
                 /\ inbox'[c] = inbox[c]
          /\ (Waiting(client[c]) = Waiting(client'[c]) /\ ~TransportFault) =>
                 /\ SentBy(c, net') <= SentBy(c, net)
                 /\ inbox[c] \sqsubseteq inbox'[c]
          /\ (Waiting(client[c]) /\ ~Waiting(client'[c])) =>
                 /\ net' = net
                 /\ BagCardinality(inbox'[c]) >= BagCardinality(inbox[c]) - 1
                 /\ inbox'[c] \sqsubseteq inbox[c]
          /\ (~Waiting(client[c]) /\ ~Waiting(client'[c]) /\ ret'[c] # ret[c]) =>
                 /\ ret'[c].kind = "err"
                 /\ ret'[c].err = "InvalidInput" \/ ~Associated(client[c])
      ]_vars

\* a connected client's send_and_recv returned the reply to its one
\* request, which the transport had duplicated: the server handled the
\* request twice and the second reply is still on its way to the client
C19_Witness ==
    \E c \in Clients :
        /\ client[c].pc = "idle"
        /\ ret[c].kind = "ok" /\ ret[c].of = "exchange"
        /\ count.duplicated
        /\ BagCardinality(inbox[c]) = 1
        /\ SentBy(c, net) = 0

\* the datagram b is a reply to a Ping
PingReply(b) == from_bytes(b).ok /\ request(from_bytes(b).packet) = Ping

\* the client c waits in a send_and_recv called with a Ping, and neither
\* that request nor a reply to it exists any more: no Ping of c is on its
\* way to the server or in a task, and no reply to a Ping is on its way to
\* c.  The client has received nothing since it sent, so what it sent, or
\* the reply to it, was lost.
ExchangeLost(c) ==
    /\ client[c].pc = "recv_wait"
    /\ client[c].call = "exchange"
    /\ \A d \in BagToSet(net) : ~(d.src = c /\ d.bytes = to_bytes(PingPacket))
    /\ \A t \in BagToSet(tasks) : ~(t.src = c /\ t.bytes = to_bytes(PingPacket))
    /\ \A b \in BagToSet(inbox[c]) : ~PingReply(b)

\* C20: a call of send_and_recv whose request, or the reply to it, the
\* transport lost never returns: the client stays in socket.recv.
C20_LostExchangeNeverReturns ==
    [][\A c \in Clients : ExchangeLost(c) => client'[c].pc = "recv_wait"]_vars

(***************************************************************************)
(* The properties of UdpPacket, checked under SpecPacket.                  *)
(***************************************************************************)
\* the packets whose bytes reach the server
SentPackets == PacketInputs \cup AlteredPackets
SentWire == [p \in SentPackets |-> ToCbor(p)]

\* the packets whose encoding the datagram of the ended task e is
SentAs(e) == {p \in SentPackets : SentWire[p] = e.bytes}

\* what the API shows of a packet
Observed(packet) == <<request(packet), response(packet), try_retrieve_data(packet)>>

\* C21: the packet decoded from the bytes to_bytes gave for a packet has the
\* request, the response and the result of try_retrieve_data (the bytes,
\* or the error) of that packet.
C21_DecodeOfEncode ==
    \A e \in BagToSet(done) : \A p \in SentAs(e) \cap PacketInputs :
        /\ from_bytes(e.bytes).ok
        /\ Observed(PacketIn(e)) = Observed(p)

\* the server decoded a RequestTicket with response TicketsSold and a
\* payload, and one with no payload
C21_Witness ==
    /\ \E e \in BagToSet(done) :
          /\ e.bytes = to_bytes(set_data(set_response(new_with_request(RequestTicket),
                                                      TicketsSold), <<255>>))
          /\ try_retrieve_data(PacketIn(e)) = [ok |-> TRUE, data |-> <<255>>]
    /\ \E c \in Clients : ret[c].kind = "ok" /\ ret[c].of = "exchange"

\* the decoded packet of the ended task e holds a PacketData
HoldsData(e) == from_bytes(e.bytes).ok /\ IsSome(PacketIn(e).data)

\* the crc stored in the packet of e
StoredCrc(e) == Unwrap(PacketIn(e).data).crc

\* C22 as stated: a change of one bit of the stored bytes, the stored crc
\* left as it is, makes try_retrieve_data answer the Crc error, and the
\* bytes try_retrieve_data answers are never other than the bytes set_data
\* computed the stored crc over.
C22_NeverOtherBytes ==
    \A e \in BagToSet(done) :
        /\ \A p \in SentAs(e) \cap BitFlips : try_retrieve_data(PacketIn(e)) = CrcError
        /\ (HoldsData(e) /\ try_retrieve_data(PacketIn(e)).ok) =>
               \E d \in PayloadInputs :
                   /\ NewPacketData(d).crc = StoredCrc(e)
                   /\ try_retrieve_data(PacketIn(e)).data = d

\* C22, amended: a change of one bit of the stored bytes, the stored crc
\* left as it is, makes try_retrieve_data answer the Crc error, and the
\* bytes try_retrieve_data answers have the stored crc as their checksum.
C22_SingleBitDetected ==
    \A e \in BagToSet(done) :
        /\ \A p \in SentAs(e) \cap BitFlips : try_retrieve_data(PacketIn(e)) = CrcError
        /\ (HoldsData(e) /\ try_retrieve_data(PacketIn(e)).ok) =>
               Checksum(try_retrieve_data(PacketIn(e)).data) = StoredCrc(e)

\* the server decoded the packet of a 3-byte payload with the highest bit
\* of its last byte changed, and the packet of a payload it retrieves
C22_Witness ==
    /\ \E e \in BagToSet(done) :
          /\ e.bytes = to_bytes(FlipDataBit(set_data(PingPacket, StoredPayload), 3, 7))
          /\ try_retrieve_data(PacketIn(e)) = CrcError
    /\ \E e \in BagToSet(done) :
          try_retrieve_data(PacketIn(e)) = [ok |-> TRUE, data |-> StoredPayload]

\* C23: try_retrieve_data answers one of three different errors or the
\* payload: "Secret is invalid!" where the secret is not 51, whatever the
\* payload; else "Data is None!" where the packet holds no PacketData (a
\* packet new_with_request built); else "Crc error!" where the stored crc
\* is not that of the stored bytes; else the bytes set_data was given.  The
\* request and the response of the packet are those it was built with.
C23_RetrieveErrors ==
    /\ SecretError # DataNoneError /\ DataNoneError # CrcError /\ SecretError # CrcError
    /\ \A e \in BagToSet(done) : \A p \in SentAs(e) :
          /\ from_bytes(e.bytes).ok
          /\ request(PacketIn(e)) = request(p)
          /\ response(PacketIn(e)) = response(p)
          /\ p \in BadSecrets => try_retrieve_data(PacketIn(e)) = SecretError
          /\ p \in FreshPackets => try_retrieve_data(PacketIn(e)) = DataNoneError
          /\ p \in BitFlips => try_retrieve_data(PacketIn(e)) = CrcError
          /\ \A q \in FreshPackets : \A d \in PayloadInputs :
                p = set_data(q, d) =>
                    try_retrieve_data(PacketIn(e)) = [ok |-> TRUE, data |-> d]

\* the server decoded a packet of a wrong secret without payload, and a
\* packet with the empty payload
C23_Witness ==
    /\ \E e \in BagToSet(done) :
          /\ e.bytes = to_bytes([PingPacket EXCEPT !.secret = Secret - 1])
          /\ try_retrieve_data(PacketIn(e)) = SecretError
    /\ \E e \in BagToSet(done) :
          try_retrieve_data(PacketIn(e)) = [ok |-> TRUE, data |-> << >>]

(***************************************************************************)
(* The properties of gen_fake_flight and of the handler's arms, checked    *)
(* under Spec.                                                             *)
(***************************************************************************)
\* gen_fake_flight pushed a flight in this step
Generating == Len(db_storage') = Len(db_storage) + 1

\* C24: gen_fake_flight numbers the flight it pushes 1 where the ledger is
\* empty and one more than the largest number otherwise; no flight is
\* removed or renumbered, so the k-th flight generated has the number k
\* and the numbers differ, whatever the tasks in progress.
C24_FlightNumbers ==
    /\ [](/\ Len(generated) = Len(db_storage)
          /\ \A k \in 1..Len(db_storage) : db_storage[k].info.num = k)
    /\ [][/\ Len(db_storage') >= Len(db_storage)
          /\ \A k \in 1..Len(db_storage) :
                db_storage'[k].info.num = db_storage[k].info.num
          /\ Generating =>
                db_storage'[Len(db_storage')].info.num =
                    IF Len(db_storage) = 0 THEN 1 ELSE 1 + MaxNum(db_storage, 1)]_vars

\* the second flight was generated after seats of the first were sold,
\* while a task was in progress
C24_Witness ==
    /\ Len(db_storage) = 2
    /\ db_storage[2].info.num = 2
    /\ Len(db_storage[1].seats) < Cardinality(generated[1])
    /\ Len(db_storage[2].seats) = Cardinality(generated[2])
    /\ tasks # EmptyBag

\* min(max(rows, 1), 42)
RowsGiven(rows) == IF rows < 1 THEN 1 ELSE IF rows > 42 THEN 42 ELSE rows

\* the flight pushed in this step
Pushed == db_storage'[Len(db_storage')]

\* the seats gen_fake_flight pushes for each rows
SeatsGiven == [rows \in AllRows |-> GenSeats(ClampRows(rows))]

\* C25: for every rows of 0..255, gen_fake_flight pushes a flight of
\* r = min(max(rows, 1), 42) rows: 6 * r seat codes, all different, and
\* seats_num = 6 * r, which is at most 252 and fits the u8.
C25_RowsClamped ==
    [][Generating =>
          /\ Cardinality(SeatsOf(Pushed)) = Len(Pushed.seats)
          /\ Pushed.info.seats_num = Len(Pushed.seats)
          /\ Pushed.info.seats_num <= U8Limit
          /\ \A rows \in AllRows :
                (/\ Len(SeatsGiven[rows]) = Len(Pushed.seats)
                 /\ SeatsGiven[rows] = Pushed.seats) =>
                    /\ Len(Pushed.seats) = 6 * RowsGiven(rows)
                    /\ Len(Pushed.seats) <= 252]_vars

\* gen_fake_flight(0) was followed by gen_fake_flight(50) (or any rows
\* above 42): a flight of 6 seats and a flight of 252
C25_Witness ==
    /\ Len(db_storage) = 2
    /\ db_storage[1].info.seats_num = 6 /\ Len(db_storage[1].seats) = 6
    /\ db_storage[2].info.seats_num = 252 /\ Len(db_storage[2].seats) = 252
    /\ db_storage[2] = NewFlight(<<db_storage[1]>>, 50)
    /\ db_storage[1] = NewFlight(<< >>, 0)


\* a task that ended in this step after handling a RequestTicket whose
\* payload is a flight number
TicketTaskEnded(e) ==
    /\ EndedNow(e)
    /\ from_bytes(e.bytes).ok
    /\ request(RequestOf(e)) = RequestTicket
    /\ ~BadTicketRequest(RequestOf(e))

\* no flight of the ledger has the number flight_num and seats left
NoSeatsFor(flight_num) ==
    \A i \in 1..Len(db_storage) :
        db_storage[i].info.num = flight_num => db_storage[i].info.seats_num = 0

\* the tasks that hold the write guard between flight.seats.pop() and
\* flight.info.seats_num -= 1
Popped == {t \in BagToSet(tasks) : t.pc = "popped"}

\* the task u took the last seat of flight i in this step
PoppedNow(u, i) ==
    /\ u.pc = "popped"
    /\ CopiesIn(u, tasks') > CopiesIn(u, tasks)
    /\ from_bytes(u.bytes).ok
    /\ request(RequestOf(u)) = RequestTicket
    /\ ~BadTicketRequest(RequestOf(u))
    /\ db_storage[i].info.num = AskedFlight(u)
    /\ db_storage[i].info.seats_num > 0

\* the reply to a RequestTicket that found no seat carries no payload
WithoutPayload(e) == ~IsSome(Unwrap(e.out).data)
\* the reply to a RequestTicket that found no seat carries the payload of
\* the request
WithRequestPayload(e) == Unwrap(e.out).data = RequestOf(e).data

\* the effect of a RequestTicket on the ledger and its reply, SoldPayload
\* being what is said of the payload of a TicketsSold reply
TicketEffect(SoldPayload(_)) ==
    /\ \A e \in BagToSet(done') :
          TicketTaskEnded(e) =>
             /\ IsSome(e.out)
             /\ IsSome(e.sent)
             /\ IF NoSeatsFor(AskedFlight(e))
                THEN /\ response(Unwrap(e.out)) = TicketsSold
                     /\ SoldPayload(e)
                     /\ db_storage' = db_storage
                ELSE /\ response(Unwrap(e.out)) = RespOk
                     /\ \E i \in 1..Len(db_storage) :
                           /\ db_storage[i].info.num = AskedFlight(e)
                           /\ Len(db_storage[i].seats) = db_storage[i].info.seats_num - 1
                           /\ db_storage' =
                                 [db_storage EXCEPT ![i].info.seats_num = @ - 1]
    /\ (/\ db_storage' # db_storage
        /\ ~Generating
        /\ \A e \in BagToSet(done') : ~EndedNow(e))
       => \E u \in BagToSet(tasks'), i \in 1..Len(db_storage) :
             /\ PoppedNow(u, i)
             /\ Len(db_storage[i].seats) = db_storage[i].info.seats_num
             /\ u.ticket = db_storage[i].seats[Len(db_storage[i].seats)]
             /\ db_storage' =
                   [db_storage EXCEPT
                       ![i].seats = SubSeq(@, 1, Len(@) - 1)]
    /\ (Popped # {} /\ db_storage' # db_storage)
       => \E e \in BagToSet(done') : TicketTaskEnded(e) /\ e.found > 0

\* C26 as stated: a RequestTicket with a flight number for which no flight
\* of the ledger has seats left is answered TicketsSold with no payload and
\* leaves the ledger unchanged; a reservation that succeeds changes only the
\* flight asked for, removes one seat and lowers seats_num by one.
C26_SoldOutNoPayload == [][TicketEffect(WithoutPayload)]_vars

\* C26: a RequestTicket with a flight number for which no flight of the
\* ledger has seats left is answered TicketsSold, the reply carrying the
\* payload of the request (the flight number) back, and leaves the ledger
\* unchanged; a reservation that succeeds changes only the flight asked for,
\* removes one seat and lowers seats_num by one.
C26_SoldOutEchoesRequest == [][TicketEffect(WithRequestPayload)]_vars

\* a passenger of the run reserved the last seat of a flight, a RequestTicket
\* for the same flight was answered TicketsSold with the flight number in its
\* payload, another for a flight that is not in the ledger was answered
\* TicketsSold, and a second flight kept its seats
C26_Witness ==
    /\ Len(db_storage) >= 2
    /\ \E n \in FlightNums, m \in FlightInputs \ FlightNums :
          /\ \E e \in Reservations(n, RespOk) : e.src \in Clients /\ e.found = 1
          /\ \E e \in Reservations(n, TicketsSold) :
                /\ e.src \in Clients
                /\ IsSome(e.sent)
                /\ try_retrieve_data(Unwrap(e.out)).ok
                /\ FlightNumOf(try_retrieve_data(Unwrap(e.out)).data).num = n
          /\ \E e \in Reservations(m, TicketsSold) : e.src \in Clients
          /\ \E i \in 1..Len(db_storage) :
                /\ db_storage[i].info.num # n
                /\ db_storage[i].info.seats_num = Len(db_storage[i].seats)
                /\ db_storage[i].info.seats_num > 0

\* a task that handles a Ping or a GetFlights
ReadOnlyTask(t) ==
    /\ from_bytes(t.bytes).ok
    /\ request(from_bytes(t.bytes).packet) \in {Ping, GetFlights}

\* the task t took a step
Stepped(t) == CopiesIn(t, tasks') < CopiesIn(t, tasks)

\* a GetFlights task that ended in this step
ListingEnded(e) ==
    /\ EndedNow(e)
    /\ from_bytes(e.bytes).ok
    /\ request(RequestOf(e)) = GetFlights

\* the flights that the reply of a GetFlights task lists
ListedBy(e) == convert_to_flightinfo(try_retrieve_data(Unwrap(e.out)).data)

\* C27: no step of a task that handles a Ping or a GetFlights changes the
\* ledger; the ledger does not change between the moment a GetFlights task
\* takes its read guard and its reply, no write guard is held then, and the
\* reply lists the info of every flight of that ledger in order, seats_num
\* being the number of seats left of each: no flight half inserted and no
\* counter from between a pop and its decrement.
C27_ListFlightsSnapshot ==
    [][/\ \A t \in BagToSet(tasks) :
             (ReadOnlyTask(t) /\ Stepped(t)) => db_storage' = db_storage
       /\ (\E t \in BagToSet(tasks) : t.pc = "reading") =>
             (db_storage' = db_storage /\ ~db_lock.writer /\ ~db_lock'.writer)
       /\ \A e \in BagToSet(done') :
             ListingEnded(e) =>
                /\ IsSome(e.out)
                /\ response(Unwrap(e.out)) = RespOk
                /\ try_retrieve_data(Unwrap(e.out)).ok
                /\ ListedBy(e).ok
                /\ ListedBy(e).flights = FlightInfos(db_storage)
                /\ \A i \in 1..Len(db_storage) :
                      ListedBy(e).flights[i].seats_num = Len(db_storage[i].seats)]_vars

\* a GetFlights of a passenger was answered with the one flight of the ledger
\* before a second flight was generated and before a RequestTicket of
\* another passenger, handled at the same time, took a seat of it
C27_Witness ==
    /\ Len(db_storage) = 2
    /\ \E e \in BagToSet(done) :
          /\ e.src \in Clients
          /\ from_bytes(e.bytes).ok
          /\ request(RequestOf(e)) = GetFlights
          /\ IsSome(e.out)
          /\ Len(ListedBy(e).flights) = 1
          /\ \E r \in Reservations(ListedBy(e).flights[1].num, RespOk) :
                /\ r.src \in Clients
                /\ r.src # e.src
                /\ r.found = ListedBy(e).flights[1].seats_num

\* a call of fetch_flights of the client c ends in this step
FetchEnds(c) ==
    /\ client[c].pc = "recv_wait"
    /\ client[c].call = "fetch"
    /\ client'[c].pc # "recv_wait"

\* the list `flights` has one info for each of the first flights of the
\* ledger, in the order of generation, with at least the flights the ledger
\* held when the call began (since) and seats_num between what the flight
\* has now and what it was generated with
ListsLedger(flights, since) ==
    /\ Len(flights) >= since
    /\ Len(flights) <= Len(db_storage)
    /\ \A i \in 1..Len(flights) :
          /\ i <= Len(db_storage)
          /\ flights[i].num = db_storage[i].info.num
          /\ flights[i].seats_num >= db_storage[i].info.seats_num
          /\ flights[i].seats_num <= Cardinality(generated[i])

\* C28: with no datagram lost, the list a fetch_flights of a passenger
\* returns has one FlightInfo for each flight of the ledger, in the order of
\* generation, the flights generated before the call began included, with
\* the seats_num the flight had at a moment of the call.
C28_ListsCurrentFlights ==
    [][\A c \in Clients :
          (FetchEnds(c) /\ ret'[c].kind = "ok") =>
             /\ ret'[c].of = "fetch"
             /\ ListsLedger(ret'[c].val, client[c].arg)]_vars

\* a call of query_ticket_for_a_flight of the client c returns Ok(Some(seat))
\* in this step
QueryReturnsSeat(c) ==
    /\ client[c].pc = "recv_wait"
    /\ client[c].call = "query"
    /\ client'[c].pc = "idle"
    /\ ret'[c].kind = "ok"
    /\ ret'[c].of = "query"
    /\ IsSome(ret'[c].val)

\* C29: acquired_tickets of a passenger changes only in the step in which
\* its query_ticket_for_a_flight returns Ok(Some(seat)), and then by one
\* FlightTicket appended, with the flight number asked for and the seat
\* returned; every other step (a query that returns Ok(None) or an error or
\* panics, fetch_flights, set_server) leaves it unchanged.
C29_TicketsOnlyAppended ==
    [][\A c \in Clients :
          IF QueryReturnsSeat(c)
          THEN acquired_tickets'[c] =
                  Append(acquired_tickets[c],
                         [flight_num |-> client[c].arg, ticket |-> Unwrap(ret'[c].val)])
          ELSE acquired_tickets'[c] = acquired_tickets[c]]_vars

\* a passenger connected with set_server, got a seat of flight 1 and then
\* called fetch_flights, which returned while its list held the one ticket;
\* another passenger asked for a ticket without a server and got the error
C29_Witness ==
    \E c, d \in Clients :
        /\ c # d
        /\ client[c].connect_ret = RetOk("connect", None)
        /\ Len(acquired_tickets[c]) = 1
        /\ acquired_tickets[c][1].flight_num = 1
        /\ acquired_tickets[c][1].ticket \in generated[1]
        /\ ret[c].kind = "ok" /\ ret[c].of = "fetch"
        /\ client[c].pc = "idle"
        /\ acquired_tickets[d] = << >>
        /\ ret[d].kind = "err" /\ ret[d].of = "query"

(***************************************************************************)
(* The handler ServerSide::new_with_address installs, checked under        *)
(* SpecPacket.                                                             *)
(***************************************************************************)

\* set_processing_fn was never called: the server and its loops hold the
\* handler of new_with_address
NeverSetHandler ==
    /\ server.processing_fn = DefaultFn
    /\ \A l \in 1..Len(loops) : loops[l].fn = DefaultFn

\* the datagram `sent` holds the packet `received` with the response Ok:
\* the same request, the same PacketData, the same answer of try_retrieve_data
EchoedOk(received, sent) ==
    /\ from_bytes(sent).ok
    /\ response(from_bytes(sent).packet) = RespOk
    /\ request(from_bytes(sent).packet) = request(received)
    /\ from_bytes(sent).packet.data = received.data
    /\ try_retrieve_data(from_bytes(sent).packet) = try_retrieve_data(received)

\* C30: while set_processing_fn was never called, every task whose datagram
\* decodes to a packet ends with a reply sent to the address the datagram
\* came from, and the reply decodes to a packet with the response Ok and
\* the request and payload of the packet received, whatever response and
\* secret that packet carried.
C30_DefaultHandlerEchoes ==
    NeverSetHandler =>
        \A e \in BagToSet(done) :
            from_bytes(e.bytes).ok =>
                /\ IsSome(e.out)
                /\ IsSome(e.sent)
                /\ Unwrap(e.sent).to = e.src
                /\ EchoedOk(PacketIn(e), Unwrap(e.sent).bytes)

\* a Ping that carries the response ErrorInRequest and the payload 1, 2, 3
MarkedPing == set_data(set_response(new_with_request(Ping), ErrorInRequest), StoredPayload)

\* a client sent that Ping and send_and_recv returned it with the response
\* Ok and the same payload
C30_Witness ==
    /\ NeverSetHandler
    /\ \E c \in Clients :
          /\ ret[c] = RetOk("exchange", Some(set_response(MarkedPing, RespOk)))
          /\ try_retrieve_data(Unwrap(ret[c].val)) = [ok |-> TRUE, data |-> StoredPayload]
          /\ \E e \in BagToSet(done) :
                /\ e.src = c
                /\ e.bytes = to_bytes(MarkedPing)
                /\ IsSome(e.sent)

(***************************************************************************)
(* The reply a call takes, checked under SpecPassenger.                    *)
(***************************************************************************)

\* the request of the packet the call sends
RequestOfCall(call) ==
    IF call = "fetch" THEN GetFlights
    ELSE IF call = "query" THEN RequestTicket
    ELSE Ping

\* the send_and_recv of the client c, called on a session that set_server
\* established, returns with the datagram d in this step
ReturnsWith(c, d) ==
    /\ client[c].connect_ret = RetOk("connect", None)
    /\ client[c].pc = "recv_wait"
    /\ client'[c].pc # "recv_wait"
    /\ CopiesIn(d, inbox'[c]) < CopiesIn(d, inbox[c])

\* C31: the packet a send_and_recv returns is the reply to the request that
\* call sent: it carries the request of the packet sent (the handler changes
\* the response and the payload only), never the reply to the request of
\* an earlier call of the session, however the transport delays or
\* duplicates datagrams.
C31_ReplyToOwnRequest ==
    [][\A c \in Clients : \A d \in BagToSet(inbox[c]) :
          ReturnsWith(c, d) =>
             /\ from_bytes(d).ok
             /\ request(from_bytes(d).packet) = RequestOfCall(client[c].call)]_vars

(***************************************************************************)
(* The tickets the passengers hold, checked under Spec.                    *)
(***************************************************************************)

\* the places of the acquired_tickets lists: passenger and index
TicketPlaces == {<<c, i>> : c \in Clients, i \in 1..MaxCalls}
Held == {p \in TicketPlaces : p[2] <= Len(acquired_tickets[p[1]])}
TicketAt(p) == acquired_tickets[p[1]][p[2]]

\* the ledger gave the seat of the ticket out for the flight of the ticket:
\* gen_fake_flight pushed it for that flight and it is no longer in its seats
IssuedByLedger(ticket) ==
    \E i \in 1..Len(db_storage) :
        /\ db_storage[i].info.num = ticket.flight_num
        /\ ticket.ticket \in generated[i]
        /\ ticket.ticket \notin SeatsOf(db_storage[i])

\* C32: every FlightTicket of every acquired_tickets names a seat that the
\* ledger gave out for the flight number of the ticket, and no two entries,
\* of two passengers or of one, hold the same flight number and seat.
C32_TicketsIssuedOnce ==
    /\ \A p \in Held : IssuedByLedger(TicketAt(p))
    /\ \A p, q \in Held : TicketAt(p) = TicketAt(q) => p = q

(***************************************************************************)
(* RequestTicket packets whose payload cannot be read, checked under       *)
(* SpecMalformed.                                                          *)
(***************************************************************************)

\* a task that ended in this step after a RequestTicket whose payload is
\* missing, corrupt, of a wrong secret or shorter than 4 bytes
MalformedEnded(e) ==
    /\ EndedNow(e)
    /\ from_bytes(e.bytes).ok
    /\ BadTicketRequest(RequestOf(e))

\* a task that ended in this step after a packet the handler can read
WellFormedEnded(e) ==
    /\ EndedNow(e)
    /\ from_bytes(e.bytes).ok
    /\ ~BadTicketRequest(RequestOf(e))

\* C33: a RequestTicket whose payload is missing, corrupt, of a wrong secret
\* or shorter than 4 bytes leaves the ledger and its lock as they were, the
\* lock is never poisoned, and every task that handles a Ping, a GetFlights
\* or a RequestTicket with a flight number, before or after such a packet,
\* ends with its reply: Ok, or TicketsSold for a RequestTicket without seat.
C33_MalformedLeavesLedger ==
    /\ [](~db_lock.poisoned)
    /\ [][\A e \in BagToSet(done') :
             /\ MalformedEnded(e) =>
                   (db_storage' = db_storage /\ db_lock' = db_lock)
             /\ WellFormedEnded(e) =>
                   /\ IsSome(e.out)
                   /\ IsSome(e.sent)
                   /\ response(Unwrap(e.out)) \in
                         IF request(RequestOf(e)) = RequestTicket
                         THEN {RespOk, TicketsSold} ELSE {RespOk}]_vars

\* a task failed on a RequestTicket with a payload of 3 bytes, a flight was
\* generated, a passenger got a seat, and the lock is free and not poisoned
C33_Witness ==
    /\ \E e \in BagToSet(done) : e.bytes = to_bytes(ShortPayload) /\ ~IsSome(e.out)
    /\ Len(db_storage) = 2
    /\ \E e \in BagToSet(done) :
          /\ e.src \in Clients
          /\ IsSome(e.out)
          /\ request(Unwrap(e.out)) = RequestTicket
          /\ response(Unwrap(e.out)) = RespOk
          /\ e.found > 0
    /\ CanWrite(db_lock)
    /\ ~db_lock.poisoned

(***************************************************************************)
(* The guards of the ledger, checked under FairSpecLedger.                 *)
(***************************************************************************)

\* the tasks between flight.seats.pop() and the return of the arm
PoppedTasks ==
    BagCardinality([t \in {x \in BagToSet(tasks) : x.pc = "popped"} |-> tasks[t]])

\* a guard of the ledger is held
GuardHeld == db_lock.writer \/ db_lock.readers > 0

\* a task that holds a guard can take its next step: it waits for nothing
HoldersRun ==
    \A t \in BagToSet(tasks) :
        t.pc \in {"reading", "popped"} => ~TaskStep(t, db_storage, db_lock).blocked

\* C34: every operation on the ledger holds at most one guard (the write
\* guard is held by exactly one task between its pop and its return, the
\* read guards are those of the GetFlights tasks and of the menu, and never
\* both kinds), a task that holds a guard waits for nothing, a guard that is
\* held is released, and every task spawned ends: no interleaving of
\* gen_fake_flight, the menu and the handlers deadlocks on the ledger.
C34_NoDeadlockOnLedger ==
    /\ [](/\ PoppedTasks = (IF db_lock.writer THEN 1 ELSE 0)
          /\ ShowingFlights \in {0, 1}
          /\ ~(db_lock.writer /\ db_lock.readers > 0)
          /\ ~db_lock.poisoned
          /\ HoldersRun)
    /\ (GuardHeld ~> CanWrite(db_lock))
    /\ ((tasks # EmptyBag) ~> (tasks = EmptyBag))

\* a RequestTicket task waits for the write guard while a GetFlights task
\* and the menu hold read guards
C34_Witness ==
    /\ ShowingFlights = 1
    /\ ReadingTasks = 1
    /\ \E t \in BagToSet(tasks) :
          /\ t.pc = "spawned"
          /\ from_bytes(t.bytes).ok
          /\ request(from_bytes(t.bytes).packet) = RequestTicket
          /\ TaskStep(t, db_storage, db_lock).blocked

\* C35: after any sequence of start(), stop() and receive-loop events,
\* is_running() is true exactly when a receive loop is active on the socket;
\* in particular, once the loop has ended on an error of recv_from,
\* is_running() is false.
\* (a loop that stop() has aborted is not counted as active, although it
\* may take one more datagram: that is the subject of C15)
ActiveLoops == {l \in 1..Len(loops) : loops[l].state = "running"}

C35_RunningIffLoopActive == server.is_running <=> ActiveLoops # {}

\* C36: for every number of flights the ledger can hold, the encoded
\* ListFlights reply fits the client's 1024-byte receive buffer, so
\* fetch_flights decodes the complete reply and returns a summary for every
\* flight: no reply datagram is longer than the buffer, and a fetch_flights
\* that ends returns Ok with the info of every flight of the ledger.
C36_ReplyFitsBuffer ==
    /\ [](\A c \in Clients : \A d \in BagToSet(inbox[c]) : Len(d) <= BuffSize)
    /\ [][\A c \in Clients :
             FetchEnds(c) => ret'[c] = RetOk("fetch", FlightInfos(db_storage))]_vars

====
